---- MODULE Spec2Model ----
(***************************************************************************)
(* Readable-content extraction and link prioritisation of the web-mining   *)
(* skills (Gen2WebText, Gen2WebSearch).                                    *)
(*                                                                         *)
(* Strings are sequences of atoms: an atom is a word fragment, a           *)
(* punctuation mark or one whitespace character.  Substring, prefix and    *)
(* suffix tests, splitting and joining work on these sequences the way     *)
(* the Python str methods work on characters.                              *)
(***************************************************************************)
EXTENDS Integers, Sequences, FiniteSets, TLC

VARIABLES
    pc,             \* position of the running function
    text,           \* summarize_words: argument text
    target_words,   \* summarize_words: argument target_words
    summary,        \* summarize_words: returned value
    html,           \* the fetched markup: its elements in document order
    soup,           \* _prune_noise: the parsed tree being pruned
    content_root,   \* _prune_noise: the container (0: the whole document)
    pruned_once,    \* the tree as the first _prune_noise run left it
    prune_runs,     \* number of _prune_noise runs so far
    readability,    \* what the readability library does with the page
    extraction,     \* extract_readable_text: the finished run
    start_url,      \* extract_links: argument start_url
    max_links,      \* extract_links: argument max_links
    selected,       \* extract_links: returned list (the links to process)
    skill,          \* the skill whose main() is running
    content_type,   \* the content type of the start page response
    start_page,     \* main: start_text, start_summary, start_words
    results,        \* main: the result entries recorded so far
    outcomes,       \* what each processed link's fetch and extraction met
    extract_calls,  \* the content type of every payload given to extract_readable_text
    response,       \* the JSON response printed by main
    calls,          \* the extract_links calls made so far: arguments and result
    scored,         \* _link_score: the arguments and the returned score
    tasks,          \* run_single_config: the task entries of the loaded config
    max_tasks,      \* run_single_config: args.max_tasks
    run_summary,    \* run_single_config: the summary dict, its results included
    exit_code,      \* run_single_config: the exit code returned with the summary
    run_day,        \* run_single_config: run_date.day
    cadence_filter, \* run_single_config: args.cadence
    dry_run,        \* run_single_config: args.dry_run
    task_index,     \* run_single_config: position of the task loop
    query,          \* Gen2WebSearch main: the validated query
    relaxed_left,   \* Gen2WebSearch main: the relaxed queries still to try
    attempts,       \* Gen2WebSearch main: the source requests made so far
    base_results,   \* Gen2WebSearch main: base_results
    effective_query,\* Gen2WebSearch main: effective_query
    result_source   \* Gen2WebSearch main: result_source

sumVars == <<text, target_words, summary>>
pruneVars == <<soup, content_root, pruned_once, prune_runs>>
extractVars == <<readability, extraction>>
linkVars == <<start_url, max_links, selected>>
crawlVars == <<skill, content_type, start_page, results, outcomes, extract_calls, response>>
callVars == <<calls, scored>>
scheduleVars == <<tasks, max_tasks, run_summary, exit_code, run_day, cadence_filter,
                  dry_run, task_index>>
searchVars == <<query, relaxed_left, attempts, base_results, effective_query, result_source>>
vars == <<pc, sumVars, html, pruneVars, extractVars, linkVars, crawlVars, callVars,
          scheduleVars, searchVars>>

Min(a, b) == IF a <= b THEN a ELSE b
Max(a, b) == IF a >= b THEN a ELSE b

(***************************************************************************)
(* Python string and list primitives                                       *)
(***************************************************************************)
Whitespace == {" ", "\t", "\n"}

\* seq[:k]: the first k items, or all but the last -k when k is negative
PySlicePrefix(seq, k) ==
    IF k >= 0 THEN SubSeq(seq, 1, Min(k, Len(seq)))
    ELSE SubSeq(seq, 1, Max(Len(seq) + k, 0))

\* str.split(): the maximal runs of non-whitespace atoms, in order.
\* SplitRange gives the runs of s[lo..hi]; the two halves are split apart
\* and a run that crosses the middle is put together again.
RECURSIVE SplitRange(_, _, _)
SplitRange(s, lo, hi) ==
    IF lo > hi THEN <<>>
    ELSE IF lo = hi THEN (IF s[lo] \in Whitespace THEN <<>> ELSE << <<s[lo]>> >>)
    ELSE LET mid == (lo + hi) \div 2
             left == SplitRange(s, lo, mid)
             right == SplitRange(s, mid + 1, hi)
         IN IF s[mid] \notin Whitespace /\ s[mid + 1] \notin Whitespace
            THEN SubSeq(left, 1, Len(left) - 1)
                 \o << left[Len(left)] \o right[1] >>
                 \o Tail(right)
            ELSE left \o right

Split(s) == SplitRange(s, 1, Len(s))

\* sep.join(parts)
RECURSIVE Join(_, _)
Join(sep, parts) ==
    IF parts = <<>> THEN <<>>
    ELSE IF Len(parts) = 1 THEN parts[1]
    ELSE LET mid == Len(parts) \div 2
         IN Join(sep, SubSeq(parts, 1, mid)) \o sep
            \o Join(sep, SubSeq(parts, mid + 1, Len(parts)))

JoinSp(parts) == Join(<<" ">>, parts)

WordCount(s) == Len(Split(s))

\* sub in s: sub occurs in s as a contiguous run of atoms
Contains(s, sub) ==
    \E i \in 1..(Len(s) - Len(sub) + 1) : SubSeq(s, i, i + Len(sub) - 1) = sub

StartsWith(s, prefix) ==
    Len(prefix) <= Len(s) /\ SubSeq(s, 1, Len(prefix)) = prefix

EndsWith(s, suffix) ==
    Len(suffix) <= Len(s) /\ SubSeq(s, Len(s) - Len(suffix) + 1, Len(s)) = suffix

\* str.lower(), atom by atom
LowerAtom(a) ==
    CASE a = "Nav" -> "nav"
      [] a = "Footer" -> "footer"
      [] a = "Share" -> "share"
      [] a = "Login" -> "login"
      [] a = "Cookie" -> "cookie"
      [] a = "Example" -> "example"
      [] a = "News" -> "news"
      [] a = "Text" -> "text"
      [] a = "HTML" -> "html"
      [] a = "Register" -> "register"
      [] a = "Sign" -> "sign"
      [] a = "Privacy" -> "privacy"
      [] a = "Policy" -> "policy"
      [] a = "Latest" -> "latest"
      [] OTHER -> a

Lower(s) == [i \in 1..Len(s) |-> LowerAtom(s[i])]

\* str.strip()
RECURSIVE LStrip(_)
LStrip(s) ==
    IF s # <<>> /\ s[1] \in Whitespace THEN LStrip(Tail(s)) ELSE s

RECURSIVE RStrip(_)
RStrip(s) ==
    IF s # <<>> /\ s[Len(s)] \in Whitespace
    THEN RStrip(SubSeq(s, 1, Len(s) - 1)) ELSE s

Strip(s) == RStrip(LStrip(s))

(***************************************************************************)
(* The parsed tree.  html is the sequence of the page's elements in        *)
(* document order; element i has a tag name, a parent (an earlier element, *)
(* or 0 for the BeautifulSoup object itself), the attributes id, class (a  *)
(* list), role and aria-label, its own text (which precedes its children)  *)
(* and, if it has an href attribute, <<href>>.  A tree is the markup with  *)
(* the set of elements still attached (alive).                             *)
(***************************************************************************)
NoAttrs == [id |-> <<>>, class |-> <<>>, role |-> <<>>, aria_label |-> <<>>]

Element(tag, parent, attrs) ==
    [tag |-> tag, parent |-> parent, attrs |-> attrs, text |-> <<>>, href |-> <<>>]

BeautifulSoup(markup) == [nodes |-> markup, alive |-> 1..Len(markup)]

\* c is i itself or one of its ancestors (0 is an ancestor of every element)
RECURSIVE IsWithin(_, _, _)
IsWithin(nodes, i, c) ==
    IF i = c THEN TRUE
    ELSE IF i = 0 THEN FALSE
    ELSE IsWithin(nodes, nodes[i].parent, c)

Subtree(nodes, c) == {i \in 1..Len(nodes) : IsWithin(nodes, i, c)}

\* the attached elements strictly below c
Descendants(tree, c) == {i \in tree.alive : i # c /\ IsWithin(tree.nodes, i, c)}

\* a set of element indices as the list find_all returns: document order
RECURSIVE InOrder(_)
InOrder(S) ==
    IF S = {} THEN <<>>
    ELSE LET m == CHOOSE x \in S : \A y \in S : x <= y
         IN <<m>> \o InOrder(S \ {m})

\* container.find_all(names): the descendants of c with one of the tag names
find_all(tree, c, names) ==
    InOrder({i \in Descendants(tree, c) : tree.nodes[i].tag \in names})

\* container.find_all(True): every descendant element
find_all_tags(tree, c) == InOrder(Descendants(tree, c))

\* tag.decompose(): detaches the element with everything below it
decompose(tree, i) ==
    [tree EXCEPT !.alive = tree.alive \ Subtree(tree.nodes, i)]

(***************************************************************************)
(* NoisePruner                                                             *)
(***************************************************************************)
NOISE_TAGS ==
    {"script", "style", "noscript", "meta", "link", "nav", "header", "footer",
     "aside", "form", "button", "svg", "picture", "iframe"}

NOISE_HINTS ==
    {<<"nav">>, <<"menu">>, <<"header">>, <<"footer">>, <<"breadcrumb">>,
     <<"cookie">>, <<"consent">>, <<"privacy">>, <<"account">>, <<"signin">>,
     <<"sign", "-", "in">>, <<"login">>, <<"register">>, <<"newsletter">>,
     <<"share">>, <<"social">>, <<"promo">>, <<"advert">>, <<"ads">>,
     <<"sidebar">>, <<"related">>, <<"subscribe">>, <<"notification">>}

CONTENT_HINTS ==
    {<<"content">>, <<"article">>, <<"story">>, <<"main">>, <<"body">>,
     <<"post">>, <<"entry">>, <<"headline">>, <<"news">>}

_attrs_to_text(tag) ==
    LET a == tag.attrs
        attr_values ==
            (IF a.id # <<>> THEN <<a.id>> ELSE <<>>)
            \o a.class
            \o (IF a.role # <<>> THEN <<a.role>> ELSE <<>>)
            \o (IF a.aria_label # <<>> THEN <<a.aria_label>> ELSE <<>>)
    IN Lower(JoinSp(attr_values))

_looks_like_noise(tag) ==
    \E hint \in NOISE_HINTS : Contains(_attrs_to_text(tag), hint)

\* the first loop of _prune_noise: decompose every listed element
RECURSIVE DecomposeAll(_, _)
DecomposeAll(tree, tags) ==
    IF tags = <<>> THEN tree
    ELSE DecomposeAll(decompose(tree, tags[1]), Tail(tags))

\* the second loop: an element detached meanwhile has lost its attributes
\* and is skipped; one that looks like noise is decomposed
RECURSIVE DecomposeNoisy(_, _)
DecomposeNoisy(tree, tags) ==
    IF tags = <<>> THEN tree
    ELSE IF tags[1] \notin tree.alive THEN DecomposeNoisy(tree, Tail(tags))
    ELSE IF _looks_like_noise(tree.nodes[tags[1]])
         THEN DecomposeNoisy(decompose(tree, tags[1]), Tail(tags))
         ELSE DecomposeNoisy(tree, Tail(tags))

\* as DecomposeNoisy, but after a decompose the next listed element is
\* passed over (the loop runs over the live list instead of a copy)
RECURSIVE DecomposeNoisySkipping(_, _)
DecomposeNoisySkipping(tree, tags) ==
    IF tags = <<>> THEN tree
    ELSE IF tags[1] \notin tree.alive THEN DecomposeNoisySkipping(tree, Tail(tags))
    ELSE IF _looks_like_noise(tree.nodes[tags[1]])
         THEN DecomposeNoisySkipping(decompose(tree, tags[1]),
                                     IF Len(tags) >= 2 THEN Tail(Tail(tags)) ELSE <<>>)
         ELSE DecomposeNoisySkipping(tree, Tail(tags))

_prune_noise_skipping(tree, c) ==
    LET first == DecomposeAll(tree, find_all(tree, c, NOISE_TAGS))
    IN DecomposeNoisySkipping(first, find_all_tags(first, c))

_prune_noise_tags_only(tree, c) ==
    DecomposeAll(tree, find_all(tree, c, NOISE_TAGS))

_prune_noise(tree, c) ==
    LET first == DecomposeAll(tree, find_all(tree, c, NOISE_TAGS))
    IN DecomposeNoisy(first, find_all_tags(first, c))

(***************************************************************************)
(* Text of a subtree, ParagraphExtractor, ContainerSelector                *)
(***************************************************************************)
\* the non-empty stripped strings of the listed elements, in order
RECURSIVE StrippedStrings(_, _)
StrippedStrings(nodes, idx) ==
    IF idx = <<>> THEN <<>>
    ELSE LET str == Strip(nodes[idx[1]].text)
         IN (IF str = <<>> THEN <<>> ELSE <<str>>) \o StrippedStrings(nodes, Tail(idx))

\* tag.get_text(" ", strip=True): the strings of the element and of
\* everything attached below it
get_text(tree, c) ==
    JoinSp(StrippedStrings(tree.nodes,
                           InOrder({i \in tree.alive : IsWithin(tree.nodes, i, c)})))

\* str.replace(old, new) for a one-atom old
ReplaceAtom(s, old, new) ==
    [i \in 1..Len(s) |-> IF s[i] = old THEN new ELSE s[i]]

_clean_text(t) ==
    LET cleaned == JoinSp(Split(t))
        replaced == ReplaceAtom(ReplaceAtom(ReplaceAtom(cleaned,
                        "<C3 82>", " "), "<C3 A2 C2 80 C2 99>", "'"),
                        "<C3 A2 C2 80 C2 93>", "-")
    IN JoinSp(Split(replaced))

PARAGRAPH_MIN_WORDS == 8
PARAGRAPH_SKIP_HINTS ==
    {<<"accessibility", " ", "help">>, <<"cookie">>, <<"privacy", " ", "policy">>,
     <<"sign", " ", "in">>}

\* the paragraph filter keeping a paragraph only above 8 words
RECURSIVE KeptParagraphsAboveEight(_, _)
KeptParagraphsAboveEight(tree, ps) ==
    IF ps = <<>> THEN <<>>
    ELSE LET t == _clean_text(get_text(tree, ps[1]))
             skip == \/ WordCount(t) <= PARAGRAPH_MIN_WORDS
                     \/ \E hint \in PARAGRAPH_SKIP_HINTS : Contains(Lower(t), hint)
         IN (IF skip THEN <<>> ELSE <<t>>) \o KeptParagraphsAboveEight(tree, Tail(ps))

RECURSIVE KeptParagraphs(_, _)
KeptParagraphs(tree, ps) ==
    IF ps = <<>> THEN <<>>
    ELSE LET t == _clean_text(get_text(tree, ps[1]))
             skip == \/ WordCount(t) < PARAGRAPH_MIN_WORDS
                     \/ \E hint \in PARAGRAPH_SKIP_HINTS : Contains(Lower(t), hint)
         IN (IF skip THEN <<>> ELSE <<t>>) \o KeptParagraphs(tree, Tail(ps))

_extract_paragraph_text(tree, c) ==
    Strip(JoinSp(KeptParagraphs(tree, find_all(tree, c, {"p"}))))

PREFERRED_MIN_WORDS == 60

\* soup.select_one(selector): the first matching element, <<>> if none
select_one(tree, selector) ==
    LET hits == {i \in tree.alive :
                    IF selector = "[role='main']"
                    THEN tree.nodes[i].attrs.role = <<"main">>
                    ELSE tree.nodes[i].tag = selector}
    IN IF hits = {} THEN <<>> ELSE <<InOrder(hits)[1]>>

\* the preferred selectors accepting an element only above 60 words
RECURSIVE PreferredContainerAbove(_, _)
PreferredContainerAbove(tree, selectors) ==
    IF selectors = <<>> THEN <<>>
    ELSE LET candidate == select_one(tree, selectors[1])
         IN IF /\ candidate # <<>>
               /\ WordCount(get_text(tree, candidate[1])) > PREFERRED_MIN_WORDS
            THEN candidate
            ELSE PreferredContainerAbove(tree, Tail(selectors))

\* the preferred selectors in order: the first whose element has at least
\* 60 words, <<>> if there is none
RECURSIVE PreferredContainer(_, _)
PreferredContainer(tree, selectors) ==
    IF selectors = <<>> THEN <<>>
    ELSE LET candidate == select_one(tree, selectors[1])
         IN IF /\ candidate # <<>>
               /\ WordCount(get_text(tree, candidate[1])) >= PREFERRED_MIN_WORDS
            THEN candidate
            ELSE PreferredContainer(tree, Tail(selectors))

\* the scan with `>=`: among equal word counts the last candidate wins
RECURSIVE ScanBestLastWins(_, _, _)
ScanBestLastWins(tree, tags, best) ==
    IF tags = <<>> THEN best
    ELSE LET attrs_text == _attrs_to_text(tree.nodes[tags[1]])
             word_count == WordCount(get_text(tree, tags[1]))
         IN IF ~ \E hint \in CONTENT_HINTS : Contains(attrs_text, hint)
            THEN ScanBestLastWins(tree, Tail(tags), best)
            ELSE IF \E hint \in NOISE_HINTS : Contains(attrs_text, hint)
            THEN ScanBestLastWins(tree, Tail(tags), best)
            ELSE IF word_count >= best[2]
            THEN ScanBestLastWins(tree, Tail(tags), <<tags[1], word_count>>)
            ELSE ScanBestLastWins(tree, Tail(tags), best)

\* the scan without the noise-hint test
RECURSIVE ScanBestIgnoringNoise(_, _, _)
ScanBestIgnoringNoise(tree, tags, best) ==
    IF tags = <<>> THEN best
    ELSE LET attrs_text == _attrs_to_text(tree.nodes[tags[1]])
             word_count == WordCount(get_text(tree, tags[1]))
         IN IF ~ \E hint \in CONTENT_HINTS : Contains(attrs_text, hint)
            THEN ScanBestIgnoringNoise(tree, Tail(tags), best)
            ELSE IF word_count > best[2]
            THEN ScanBestIgnoringNoise(tree, Tail(tags), <<tags[1], word_count>>)
            ELSE ScanBestIgnoringNoise(tree, Tail(tags), best)

\* the scan: best is <<best_tag, best_words>>
RECURSIVE ScanBest(_, _, _)
ScanBest(tree, tags, best) ==
    IF tags = <<>> THEN best
    ELSE LET attrs_text == _attrs_to_text(tree.nodes[tags[1]])
             word_count == WordCount(get_text(tree, tags[1]))
         IN IF ~ \E hint \in CONTENT_HINTS : Contains(attrs_text, hint)
            THEN ScanBest(tree, Tail(tags), best)
            ELSE IF \E hint \in NOISE_HINTS : Contains(attrs_text, hint)
            THEN ScanBest(tree, Tail(tags), best)
            ELSE IF word_count > best[2]
            THEN ScanBest(tree, Tail(tags), <<tags[1], word_count>>)
            ELSE ScanBest(tree, Tail(tags), best)

\* the container taken from the preferred selectors alone
_pick_content_container_preferred_only(tree) ==
    LET preferred == PreferredContainer(tree, <<"article", "main", "[role='main']">>)
    IN IF preferred # <<>> THEN preferred[1] ELSE 0

\* 0 is the soup itself
_pick_content_container(tree) ==
    LET preferred == PreferredContainer(tree, <<"article", "main", "[role='main']">>)
    IN IF preferred # <<>> THEN preferred[1]
       ELSE ScanBest(tree, find_all(tree, 0, {"section", "div", "main", "article"}),
                     <<0, 0>>)[1]

(***************************************************************************)
(* ReadabilityFallback and the extraction ladder                           *)
(***************************************************************************)
\* the markup of the subtree of element r (r = 0: the whole page)
SubDoc(nodes, r) ==
    LET idx == InOrder(Subtree(nodes, r))
        pos(old) == CHOOSE k \in 1..Len(idx) : idx[k] = old
    IN [k \in 1..Len(idx) |->
           [nodes[idx[k]] EXCEPT !.parent = IF idx[k] = r \/ @ = 0 THEN 0 ELSE pos(@)]]

\* the readability library is not part of the repository.  lib is what it
\* does with the page: "missing" (the import failed, Document is None),
\* "raises", or "summary" with the element whose subtree doc.summary()
\* returns (0: the whole page).
\* summary_soup after _prune_noise
readability_soup(markup, lib) ==
    _prune_noise(BeautifulSoup(SubDoc(markup, lib.root)), 0)

_extract_with_readability(markup, lib) ==
    IF lib.kind # "summary" THEN <<>>
    ELSE LET summary_soup == readability_soup(markup, lib)
             paragraph_text == _extract_paragraph_text(summary_soup, 0)
         IN IF paragraph_text # <<>> THEN paragraph_text
            ELSE _clean_text(get_text(summary_soup, 0))

READABILITY_MIN_WORDS == 80
PRIMARY_MIN_WORDS == 60
RESCUE_MIN_WORDS == 40

NoTree == [nodes |-> <<>>, alive |-> {}]

\* the text of a container without the flattened-text fallback
ContainerTextParagraphsOnly(tree, c) == _extract_paragraph_text(tree, c)

\* paragraph_text if paragraph_text else _clean_text(root.get_text(...))
ContainerText(tree, c) ==
    LET paragraph_text == _extract_paragraph_text(tree, c)
    IN IF paragraph_text # <<>> THEN paragraph_text
       ELSE _clean_text(get_text(tree, c))

\* the run that returned the readability text at once
ReadabilityRun(readability_text) ==
    [steps |-> <<"readability">>, readability_text |-> readability_text,
     content_root |-> 0, soup |-> NoTree, primary_text |-> <<>>,
     fallback_soup |-> NoTree, fallback_text |-> <<>>,
     text |-> readability_text]

\* as PrimaryRun, but a primary text of exactly 60 words is retried too
PrimaryRunRetryAtSixty(readability_text, content_root_, soup_, primary, fallback_soup) ==
    LET retried == WordCount(primary) <= PRIMARY_MIN_WORDS
        text2 == IF retried THEN ContainerText(fallback_soup, 0) ELSE primary
        rescued == WordCount(text2) < RESCUE_MIN_WORDS /\ readability_text # <<>>
    IN [steps |-> <<"readability", "primary">>
                  \o (IF retried THEN <<"whole_document">> ELSE <<>>)
                  \o (IF rescued THEN <<"rescue">> ELSE <<>>),
        readability_text |-> readability_text,
        content_root |-> content_root_, soup |-> soup_,
        primary_text |-> primary,
        fallback_soup |-> IF retried THEN fallback_soup ELSE NoTree,
        fallback_text |-> IF retried THEN text2 ELSE <<>>,
        text |-> IF rescued THEN readability_text ELSE text2]

\* as PrimaryRun, but the readability text rescues every result below 60 words
PrimaryRunRescueBelowSixty(readability_text, content_root_, soup_, primary, fallback_soup) ==
    LET retried == WordCount(primary) < PRIMARY_MIN_WORDS
        text2 == IF retried THEN ContainerText(fallback_soup, 0) ELSE primary
        rescued == WordCount(text2) < PRIMARY_MIN_WORDS /\ readability_text # <<>>
    IN [steps |-> <<"readability", "primary">>
                  \o (IF retried THEN <<"whole_document">> ELSE <<>>)
                  \o (IF rescued THEN <<"rescue">> ELSE <<>>),
        readability_text |-> readability_text,
        content_root |-> content_root_, soup |-> soup_,
        primary_text |-> primary,
        fallback_soup |-> IF retried THEN fallback_soup ELSE NoTree,
        fallback_text |-> IF retried THEN text2 ELSE <<>>,
        text |-> IF rescued THEN readability_text ELSE text2]

\* the run from the primary text on: the whole document is retried below
\* PRIMARY_MIN_WORDS, the readability text rescues a short result
PrimaryRun(readability_text, content_root_, soup_, primary, fallback_soup) ==
    LET retried == WordCount(primary) < PRIMARY_MIN_WORDS
        text2 == IF retried THEN ContainerText(fallback_soup, 0) ELSE primary
        rescued == WordCount(text2) < RESCUE_MIN_WORDS /\ readability_text # <<>>
    IN [steps |-> <<"readability", "primary">>
                  \o (IF retried THEN <<"whole_document">> ELSE <<>>)
                  \o (IF rescued THEN <<"rescue">> ELSE <<>>),
        readability_text |-> readability_text,
        content_root |-> content_root_, soup |-> soup_,
        primary_text |-> primary,
        fallback_soup |-> IF retried THEN fallback_soup ELSE NoTree,
        fallback_text |-> IF retried THEN text2 ELSE <<>>,
        text |-> IF rescued THEN readability_text ELSE text2]

\* the run once the container is pruned
PrunedRun(markup, readability_text, content_root_, soup_) ==
    PrimaryRun(readability_text, content_root_, soup_,
               ContainerText(soup_, content_root_),
               _prune_noise(BeautifulSoup(markup), 0))

\* the run once the container is picked
ContainerRun(markup, readability_text, content_root_) ==
    PrunedRun(markup, readability_text, content_root_,
              _prune_noise(BeautifulSoup(markup), content_root_))

\* as ReadabilityStep, but the readability result is final only above 80 words
ReadabilityStepStrict(markup, readability_text) ==
    IF WordCount(readability_text) > READABILITY_MIN_WORDS
    THEN ReadabilityRun(readability_text)
    ELSE ContainerRun(markup, readability_text,
                      _pick_content_container(BeautifulSoup(markup)))

\* the run once the readability library has answered
ReadabilityStep(markup, readability_text) ==
    IF WordCount(readability_text) >= READABILITY_MIN_WORDS
    THEN ReadabilityRun(readability_text)
    ELSE ContainerRun(markup, readability_text,
                      _pick_content_container(BeautifulSoup(markup)))

\* one run of extract_readable_text: the steps it executes, the trees it
\* builds and the text it returns
extract_run(markup, lib) ==
    ReadabilityStep(markup, _extract_with_readability(markup, lib))

extract_readable_text(markup, lib) == extract_run(markup, lib).text

(***************************************************************************)
(* URLs.  A URL is a string like any other: scheme, ":", "//", the host    *)
(* atoms, then the path atoms ("/" and segments), "#" and the fragment.    *)
(***************************************************************************)
\* the position of the first atom of s that is in stops, Len(s) + 1 if none
FirstOf(s, stops) ==
    IF \E i \in 1..Len(s) : s[i] \in stops
    THEN CHOOSE i \in 1..Len(s) : s[i] \in stops /\ \A j \in 1..(i - 1) : s[j] \notin stops
    ELSE Len(s) + 1

Delimiters == {":", "//", "/", "#", "."} \cup Whitespace

\* urllib.parse.urlparse: the scheme is lowercased, the rest is kept
urlparse(url) ==
    LET has_scheme == Len(url) >= 2 /\ url[2] = ":" /\ url[1] \notin Delimiters
        rest == IF has_scheme THEN SubSeq(url, 3, Len(url)) ELSE url
        hash == FirstOf(rest, {"#"})
        before == SubSeq(rest, 1, hash - 1)
        has_netloc == before # <<>> /\ before[1] = "//"
        after_slashes == IF has_netloc THEN Tail(before) ELSE before
        path_at == IF has_netloc THEN FirstOf(after_slashes, {"/"}) ELSE 1
    IN [scheme |-> IF has_scheme THEN LowerAtom(url[1]) ELSE "",
        netloc |-> SubSeq(after_slashes, 1, path_at - 1),
        path |-> SubSeq(after_slashes, path_at, Len(after_slashes)),
        fragment |-> SubSeq(rest, hash + 1, Len(rest))]

\* ParseResult.geturl()
geturl(parsed) ==
    (IF parsed.scheme # "" THEN <<parsed.scheme, ":">> ELSE <<>>)
    \o (IF parsed.netloc # <<>> THEN <<"//">> \o parsed.netloc ELSE <<>>)
    \o parsed.path
    \o (IF parsed.fragment # <<>> THEN <<"#">> \o parsed.fragment ELSE <<>>)

\* the position of the last "/" of a path, 0 if none
LastSlash(path) ==
    IF \E i \in 1..Len(path) : path[i] = "/"
    THEN CHOOSE i \in 1..Len(path) : path[i] = "/" /\ \A j \in (i + 1)..Len(path) : path[j] # "/"
    ELSE 0

\* urllib.parse.urljoin for references without "." and ".." segments
urljoin(base, url) ==
    LET b == urlparse(base)
        u == urlparse(url)
    IN IF url = <<>> THEN base
       ELSE IF u.scheme # "" /\ u.scheme # b.scheme THEN url
       ELSE IF u.scheme # "" /\ u.scheme \notin {"http", "https", "ftp"} THEN url
       ELSE IF u.netloc # <<>>
            THEN geturl([u EXCEPT !.scheme = b.scheme])
       ELSE IF u.path = <<>>
            THEN geturl([b EXCEPT !.fragment = u.fragment])
       ELSE IF u.path[1] = "/"
            THEN geturl([b EXCEPT !.path = u.path, !.fragment = u.fragment])
       ELSE geturl([b EXCEPT !.path = SubSeq(b.path, 1, LastSlash(b.path)) \o u.path,
                             !.fragment = u.fragment])

(***************************************************************************)
(* LinkScorer                                                              *)
(***************************************************************************)
NON_CONTENT_LINK_HINTS ==
    {<<"login">>, <<"sign", "-", "in">>, <<"signin">>, <<"register">>, <<"account">>,
     <<"privacy">>, <<"cookie", "s">>, <<"terms">>, <<"contact">>, <<"help">>,
     <<"newsletter">>, <<"podcast">>, <<"audio">>, <<"video">>, <<"weather">>,
     <<"sport">>}

LOW_SIGNAL_ANCHOR_TEXT ==
    {<<"home">>, <<"menu">>, <<"more">>, <<"sign", " ", "in">>, <<"register">>,
     <<"login">>, <<"account">>, <<"notification", "s">>}

SECTION_PATH_HINTS ==
    {<<"/">>, <<"/", "news">>, <<"/", "sport">>, <<"/", "weather">>, <<"/", "iplayer">>,
     <<"/", "sounds">>, <<"/", "food">>, <<"/", "travel">>, <<"/", "culture">>}

CONTENT_PATH_TOKENS ==
    {<<"/", "news", "/">>, <<"/", "article">>, <<"/", "story">>, <<"/", "live">>,
     <<"/", "202">>}

\* len([piece for piece in path.split("/") if piece])
PathDepth(path) ==
    Cardinality({i \in 1..Len(path) :
                    path[i] # "/" /\ (i = 1 \/ path[i - 1] = "/")})

\* path.rstrip("/")
RECURSIVE RStripSlash(_)
RStripSlash(path) ==
    IF path # <<>> /\ path[Len(path)] = "/"
    THEN RStripSlash(SubSeq(path, 1, Len(path) - 1)) ELSE path

\* re.search(r"/news/(live|topics?)(/|$)", path)
IsLiveOrTopicIndex(path) ==
    \E stem \in {<<"/", "news", "/", "live">>, <<"/", "news", "/", "topic">>,
                 <<"/", "news", "/", "topic", "s">>} :
        Contains(path, stem \o <<"/">>) \/ EndsWith(path, stem)

\* re.search(r"/news/articles/[a-z0-9]+", path)
IsArticleId(path) ==
    \E i \in 1..Len(path) :
        /\ i + 6 <= Len(path)
        /\ SubSeq(path, i, i + 5) = <<"/", "news", "/", "article", "s", "/">>
        /\ path[i + 6] \notin Delimiters \cup {"-", "_"}

_link_score(start_host, normalized_url, anchor_text) ==
    LET parsed == urlparse(normalized_url)
        host == Lower(parsed.netloc)
        path == Lower(parsed.path)
        anchor_lower == Lower(anchor_text)
        anchor_words == WordCount(anchor_text)
        path_no_trailing == IF path # <<"/">> THEN RStripSlash(path) ELSE path
    IN (IF EndsWith(host, start_host) THEN 2 ELSE 0)
       + (IF PathDepth(path) >= 2 THEN 1 ELSE 0)
       + (IF \E token \in CONTENT_PATH_TOKENS : Contains(path, token) THEN 2 ELSE 0)
       + (IF 4 <= anchor_words /\ anchor_words <= 20 THEN 2
          ELSE IF anchor_words <= 1 THEN 0 - 2 ELSE 0)
       + (IF anchor_lower \in LOW_SIGNAL_ANCHOR_TEXT THEN 0 - 4 ELSE 0)
       + (IF \E hint \in NON_CONTENT_LINK_HINTS :
                Contains(path \o <<" ">> \o anchor_lower, hint)
          THEN 0 - 3 ELSE 0)
       + (IF path_no_trailing \in SECTION_PATH_HINTS THEN 0 - 4 ELSE 0)
       + (IF IsLiveOrTopicIndex(path) THEN 0 - 2 ELSE 0)
       + (IF IsArticleId(path) THEN 3 ELSE 0)

\* the loop over the anchors with the seen-check made on the absolute URL,
\* fragment included
RECURSIVE CollectLinksByAbsolute(_, _, _, _, _)
CollectLinksByAbsolute(start_url_, start_host, tree, anchors, acc) ==
    IF anchors = <<>> THEN acc.links
    ELSE LET index == anchors[1][1]
             anchor == anchors[1][2]
             href == Strip(tree.nodes[anchor].href[1])
             anchor_text == JoinSp(Split(get_text(tree, anchor)))
             absolute == urljoin(start_url_, href)
             parsed == urlparse(absolute)
             normalized == geturl([parsed EXCEPT !.fragment = <<>>])
             rest == Tail(anchors)
         IN IF \/ href = <<>> \/ StartsWith(href, <<"#">>)
               \/ StartsWith(href, <<"javascript", ":">>)
               \/ StartsWith(href, <<"mailto", ":">>)
               \/ StartsWith(href, <<"tel", ":">>)
               \/ parsed.scheme \notin {"http", "https"}
               \/ absolute \in acc.seen
            THEN CollectLinksByAbsolute(start_url_, start_host, tree, rest, acc)
            ELSE CollectLinksByAbsolute(start_url_, start_host, tree, rest,
                     [links |-> Append(acc.links,
                                    [url |-> normalized, anchor_text |-> anchor_text,
                                     score |-> _link_score(start_host, normalized, anchor_text),
                                     index |-> index]),
                      seen |-> acc.seen \cup {absolute}])

\* the loop over the anchors: anchors are <<index, element>> pairs still to
\* visit, acc is [links, seen]
RECURSIVE CollectLinks(_, _, _, _, _)
CollectLinks(start_url_, start_host, tree, anchors, acc) ==
    IF anchors = <<>> THEN acc.links
    ELSE LET index == anchors[1][1]
             anchor == anchors[1][2]
             href == Strip(tree.nodes[anchor].href[1])
             anchor_text == JoinSp(Split(get_text(tree, anchor)))
             absolute == urljoin(start_url_, href)
             parsed == urlparse(absolute)
             normalized == geturl([parsed EXCEPT !.fragment = <<>>])
             rest == Tail(anchors)
         IN IF href = <<>> \/ StartsWith(href, <<"#">>)
            THEN CollectLinks(start_url_, start_host, tree, rest, acc)
            ELSE IF \/ StartsWith(href, <<"javascript", ":">>)
                    \/ StartsWith(href, <<"mailto", ":">>)
                    \/ StartsWith(href, <<"tel", ":">>)
            THEN CollectLinks(start_url_, start_host, tree, rest, acc)
            ELSE IF parsed.scheme \notin {"http", "https"}
            THEN CollectLinks(start_url_, start_host, tree, rest, acc)
            ELSE IF normalized \in acc.seen
            THEN CollectLinks(start_url_, start_host, tree, rest, acc)
            ELSE CollectLinks(start_url_, start_host, tree, rest,
                     [links |-> Append(acc.links,
                                    [url |-> normalized, anchor_text |-> anchor_text,
                                     score |-> _link_score(start_host, normalized, anchor_text),
                                     index |-> index]),
                      seen |-> acc.seen \cup {normalized}])

\* no sort at all: the candidates stay in discovery order
SortLinksNot(links) == links

\* a sort that puts the later of two candidates of equal score first
RECURSIVE SortLinksLaterFirst(_)
SortLinksLaterFirst(links) ==
    IF links = <<>> THEN <<>>
    ELSE LET first == CHOOSE i \in 1..Len(links) :
                 \A j \in 1..Len(links) :
                     \/ links[i].score > links[j].score
                     \/ links[i].score = links[j].score /\ links[i].index >= links[j].index
         IN <<links[first]>>
            \o SortLinksLaterFirst(SubSeq(links, 1, first - 1)
                                   \o SubSeq(links, first + 1, Len(links)))

\* links.sort(key=lambda item: (-item["score"], item["index"]))
RECURSIVE SortLinks(_)
SortLinks(links) ==
    IF links = <<>> THEN <<>>
    ELSE LET first == CHOOSE i \in 1..Len(links) :
                 \A j \in 1..Len(links) :
                     \/ links[i].score > links[j].score
                     \/ links[i].score = links[j].score /\ links[i].index <= links[j].index
         IN <<links[first]>>
            \o SortLinks(SubSeq(links, 1, first - 1) \o SubSeq(links, first + 1, Len(links)))

\* the candidate list with `seen` kept between the calls: a URL that was a
\* candidate of an earlier call is skipped
sorted_links_shared_seen(start_url_, markup) ==
    LET tree == BeautifulSoup(markup)
        content_root_ == _pick_content_container(tree)
        start_host == Lower(urlparse(start_url_).netloc)
        found == find_all(tree, content_root_, {"a"})
        with_href == SelectSeq(found, LAMBDA i : tree.nodes[i].href # <<>>)
        anchors == [k \in 1..Len(with_href) |-> <<k - 1, with_href[k]>>]
        earlier == UNION {{calls[c].links[k].url : k \in 1..Len(calls[c].links)} :
                             c \in 1..Len(calls)}
    IN SortLinks(CollectLinks(start_url_, start_host, tree, anchors,
                              [links |-> <<>>, seen |-> earlier]))

\* the candidate list of extract_links after the sort
sorted_links(start_url_, markup) ==
    LET tree == BeautifulSoup(markup)
        content_root_ == _pick_content_container(tree)
        start_host == Lower(urlparse(start_url_).netloc)
        found == find_all(tree, content_root_, {"a"})
        with_href == SelectSeq(found, LAMBDA i : tree.nodes[i].href # <<>>)
        anchors == [k \in 1..Len(with_href) |-> <<k - 1, with_href[k]>>]
    IN SortLinks(CollectLinks(start_url_, start_host, tree, anchors,
                              [links |-> <<>>, seen |-> {}]))

Entry(item) == [url |-> item.url, anchor_text |-> item.anchor_text]

\* the admission loop leaving at len(selected) > max_links
RECURSIVE AdmitLinksPastLimit(_, _, _)
AdmitLinksPastLimit(links, selected_, max_links_) ==
    IF links = <<>> THEN selected_
    ELSE IF Len(selected_) > max_links_ THEN selected_
    ELSE IF /\ links[1].score < 0
            /\ Len(selected_) >= Max(2, max_links_ \div 2)
         THEN AdmitLinksPastLimit(Tail(links), selected_, max_links_)
         ELSE AdmitLinksPastLimit(Tail(links), Append(selected_, Entry(links[1])),
                                  max_links_)

\* the admission loop refusing negative scores from two entries on, whatever
\* max_links is
RECURSIVE AdmitLinksCutoffTwo(_, _, _)
AdmitLinksCutoffTwo(links, selected_, max_links_) ==
    IF links = <<>> THEN selected_
    ELSE IF Len(selected_) >= max_links_ THEN selected_
    ELSE IF links[1].score < 0 /\ Len(selected_) >= 2
         THEN AdmitLinksCutoffTwo(Tail(links), selected_, max_links_)
         ELSE AdmitLinksCutoffTwo(Tail(links), Append(selected_, Entry(links[1])),
                                  max_links_)

\* the admission loop with the cutoff at half of max_links, without the
\* minimum of two
RECURSIVE AdmitLinksHalfOnly(_, _, _)
AdmitLinksHalfOnly(links, selected_, max_links_) ==
    IF links = <<>> THEN selected_
    ELSE IF Len(selected_) >= max_links_ THEN selected_
    ELSE IF links[1].score < 0 /\ Len(selected_) >= max_links_ \div 2
         THEN AdmitLinksHalfOnly(Tail(links), selected_, max_links_)
         ELSE AdmitLinksHalfOnly(Tail(links), Append(selected_, Entry(links[1])),
                                 max_links_)

\* the admission loop
RECURSIVE AdmitLinks(_, _, _)
AdmitLinks(links, selected_, max_links_) ==
    IF links = <<>> THEN selected_
    ELSE IF Len(selected_) >= max_links_ THEN selected_
    ELSE IF /\ links[1].score < 0
            /\ Len(selected_) >= Max(2, max_links_ \div 2)
         THEN AdmitLinks(Tail(links), selected_, max_links_)
         ELSE AdmitLinks(Tail(links), Append(selected_, Entry(links[1])), max_links_)

\* a selection that never takes a candidate of negative score
select_links_nonnegative(links, max_links_) ==
    LET wanted == SelectSeq(links, LAMBDA item : item.score >= 0)
        first == PySlicePrefix(wanted, Max(max_links_, 0))
    IN [k \in 1..Len(first) |-> Entry(first[k])]

\* the fallback branch taking the first |max_links| candidates
select_links_first_abs(links, max_links_) ==
    LET admitted == AdmitLinks(links, <<>>, max_links_)
        first == PySlicePrefix(links, IF max_links_ < 0 THEN 0 - max_links_ ELSE max_links_)
    IN IF admitted = <<>> THEN [k \in 1..Len(first) |-> Entry(first[k])]
       ELSE admitted

select_links(links, max_links_) ==
    LET admitted == AdmitLinks(links, <<>>, max_links_)
        first == PySlicePrefix(links, max_links_)
    IN IF admitted = <<>> THEN [k \in 1..Len(first) |-> Entry(first[k])]
       ELSE admitted

extract_links(start_url_, markup, max_links_) ==
    select_links(sorted_links(start_url_, markup), max_links_)

(***************************************************************************)
(* WordBoundedSummarizer                                                   *)
(***************************************************************************)
summarize_words_offbyone(t, k) ==
    IF t = <<>> THEN <<>>
    ELSE LET words == Split(t) IN
         IF Len(words) <= k THEN JoinSp(words)
         ELSE JoinSp(PySlicePrefix(words, k + 1))

\* a summarizer that hands a short text back as it came
summarize_words_unchanged(t, k) ==
    IF t = <<>> THEN <<>>
    ELSE LET words == Split(t) IN
         IF Len(words) <= k THEN t
         ELSE JoinSp(PySlicePrefix(words, k))

summarize_words(t, k) ==
    IF t = <<>> THEN <<>>
    ELSE LET words == Split(t) IN
         IF Len(words) <= k THEN JoinSp(words)
         ELSE JoinSp(PySlicePrefix(words, k))

(***************************************************************************)
(* Specification SpecSum: one call of summarize_words on an arbitrary      *)
(* short text                                                              *)
(***************************************************************************)
MaxTextLen == 5
MaxTarget == 3
NegTarget == 1

TextAtoms == {"a", "b", " ", "\n"}
Texts == UNION {[1..m -> TextAtoms] : m \in 0..MaxTextLen}
TargetWords == (0 - NegTarget)..MaxTarget

IdleSum == text = <<>> /\ target_words = 0 /\ summary = <<>>
IdlePrune ==
    /\ soup = NoTree
    /\ content_root = 0
    /\ pruned_once = NoTree
    /\ prune_runs = 0
NoLibrary == [kind |-> "missing", root |-> 0]
NoExtraction ==
    [steps |-> <<>>, readability_text |-> <<>>, content_root |-> 0, soup |-> NoTree,
     primary_text |-> <<>>, fallback_soup |-> NoTree, fallback_text |-> <<>>,
     text |-> <<>>]
IdleExtract == readability = NoLibrary /\ extraction = NoExtraction
NoScore == [start_host |-> <<>>, normalized_url |-> <<>>, anchor_text |-> <<>>, score |-> 0]
NoSummary ==
    [status |-> "idle", tasks_total |-> 0, tasks_due |-> 0, tasks_executed |-> 0,
     tasks_skipped |-> 0, tasks_failed |-> 0, results |-> <<>>]
IdleSchedule ==
    /\ tasks = <<>> /\ max_tasks = 0 /\ run_summary = NoSummary /\ exit_code = 0
    /\ run_day = 0 /\ cadence_filter = "" /\ dry_run = FALSE /\ task_index = 0
IdleSearch ==
    /\ query = <<>> /\ relaxed_left = <<>> /\ attempts = <<>>
    /\ base_results = <<>> /\ effective_query = <<>> /\ result_source = ""
IdleCalls == calls = <<>> /\ scored = NoScore /\ IdleSchedule /\ IdleSearch
IdleLinks == start_url = <<>> /\ max_links = 0 /\ selected = <<>> /\ IdleCalls
NoStartPage == [text |-> <<>>, summary |-> <<>>, words |-> 0]
NoResponse ==
    [status |-> "none", error |-> <<>>, start_page_summary |-> <<>>,
     start_page_words |-> 0, results |-> <<>>, links_processed |-> 0]
IdleCrawl ==
    /\ skill = "none"
    /\ content_type = <<>>
    /\ start_page = NoStartPage
    /\ results = <<>>
    /\ outcomes = <<>>
    /\ extract_calls = <<>>
    /\ response = NoResponse

InitSum ==
    /\ pc = "summarize"
    /\ text \in Texts
    /\ target_words \in TargetWords
    /\ summary = <<>>
    /\ html = <<>>
    /\ IdlePrune
    /\ IdleExtract
    /\ IdleLinks
    /\ IdleCrawl

Summarize ==
    /\ pc = "summarize"
    /\ summary' = summarize_words(text, target_words)
    /\ pc' = "summarized"
    /\ UNCHANGED <<text, target_words, html, pruneVars, extractVars, linkVars, crawlVars,
                   callVars, scheduleVars, searchVars>>

NextSum == Summarize

SpecSum == InitSum /\ [][NextSum]_vars

\* C1: for every text and every target word count k >= 0, summarize_words
\* returns exactly the first min(k, n) whitespace-separated tokens of the
\* text (n its token count), in order and joined by single spaces; the word
\* count of the output is min(k, n).
C1_FirstTokens ==
    (pc = "summarized" /\ target_words >= 0) =>
        LET tokens == Split(text)
            m == Min(target_words, Len(tokens))
        IN /\ summary = JoinSp(SubSeq(tokens, 1, m))
           /\ Len(Split(summary)) = m

\* a call that really truncates a text with irregular spacing
C1_Witness ==
    /\ pc = "summarized"
    /\ target_words >= 1
    /\ Len(Split(text)) > target_words
    /\ text # JoinSp(Split(text))
    /\ Len(Split(summary)) = target_words

\* no whitespace but single blanks between words
SingleSpaced(t) ==
    \A i \in 1..Len(t) :
        t[i] \in Whitespace =>
            /\ t[i] = " "
            /\ 1 < i /\ i < Len(t)
            /\ t[i + 1] \notin Whitespace

\* C14: when the input text has fewer words than the target word count,
\* summarize_words returns the words of the input joined by single blanks;
\* that is the input itself, character for character, exactly when the
\* input has single blanks between its words and no other whitespace.
C14_ShortTextNormalised ==
    (pc = "summarized" /\ WordCount(text) < target_words) =>
        /\ summary = JoinSp(Split(text))
        /\ summary = text <=> SingleSpaced(text)

\* a short text with two words a newline and a blank apart
C14_Witness ==
    /\ pc = "summarized"
    /\ WordCount(text) = 2
    /\ WordCount(text) < target_words
    /\ ~ SingleSpaced(text)
    /\ Len(summary) = 3

\* C14 as stated: a short text comes back unchanged
C14_ShortTextUnchanged ==
    (pc = "summarized" /\ WordCount(text) < target_words) => summary = text

(***************************************************************************)
(* Specification SpecPrune: _prune_noise run twice on a container of an    *)
(* arbitrary small tree                                                    *)
(***************************************************************************)
MaxNodes == 3

PruneKinds ==
    {[tag |-> "div", attrs |-> NoAttrs],
     [tag |-> "nav", attrs |-> NoAttrs],
     [tag |-> "div", attrs |-> [NoAttrs EXCEPT !.class = << <<"nav", "-", "menu">>, <<"wide">> >>]],
     [tag |-> "section", attrs |-> [NoAttrs EXCEPT !.id = <<"Footer">>]],
     [tag |-> "p", attrs |-> [NoAttrs EXCEPT !.aria_label = <<"Share", " ", "this">>]],
     [tag |-> "div", attrs |-> [NoAttrs EXCEPT !.role = <<"nav", "igation">>]]}

\* the parent maps of the trees with n elements listed in document order
ParentMaps(n) ==
    {f \in [1..n -> 0..n] :
        \A i \in 1..n :
            /\ f[i] < i
            /\ i > 1 => \/ f[i] = i - 1
                        \/ \E k \in 1..i : LET up[j \in 0..k] ==
                                                   IF j = 0 THEN i - 1
                                                   ELSE IF up[j - 1] = 0 THEN 0
                                                   ELSE f[up[j - 1]]
                                           IN up[k] = f[i]}

TreesOver(kinds, n) ==
    {[i \in 1..n |-> Element(k[i].tag, f[i], k[i].attrs)] :
        k \in [1..n -> kinds], f \in ParentMaps(n)}

PruneDocs == UNION {TreesOver(PruneKinds, n) : n \in 1..MaxNodes}

InitPrune ==
    /\ pc = "prune"
    /\ html \in PruneDocs
    /\ soup = BeautifulSoup(html)
    /\ content_root \in 0..Len(html)
    /\ pruned_once = soup
    /\ prune_runs = 0
    /\ IdleSum
    /\ IdleExtract
    /\ IdleLinks
    /\ IdleCrawl

Prune ==
    /\ pc = "prune"
    /\ prune_runs < 2
    /\ soup' = _prune_noise(soup, content_root)
    /\ pruned_once' = IF prune_runs = 0 THEN soup' ELSE pruned_once
    /\ prune_runs' = prune_runs + 1
    /\ UNCHANGED <<pc, sumVars, html, content_root, extractVars, linkVars, crawlVars,
                   callVars, scheduleVars, searchVars>>

NextPrune == Prune

SpecPrune == InitPrune /\ [][NextPrune]_vars

\* C8: NoisePruner is idempotent: a second _prune_noise run on an already
\* pruned container removes nothing, the tree after two runs equals the
\* tree after one run.
C8_Idempotent == prune_runs = 2 => soup = pruned_once

\* two runs on a tree where the first run removed a noise tag, a
\* noise-hinted element and kept something below the container
C8_Witness ==
    /\ prune_runs = 2
    /\ \E i \in 1..Len(html) : i \notin soup.alive /\ html[i].tag \in NOISE_TAGS
    /\ \E i \in 1..Len(html) :
           /\ i \notin soup.alive
           /\ html[i].tag \notin NOISE_TAGS
           /\ _looks_like_noise(html[i])
           /\ html[i].parent \in soup.alive \cup {0}
    /\ Descendants(soup, content_root) # {}

(***************************************************************************)
(* Specification SpecExtract: one call of extract_readable_text on a page  *)
(* made of an optional wrapper, a content block with an optional paragraph *)
(* and an optional nav inside it, and an optional sibling block            *)
(***************************************************************************)
\* n times the word w, separated by single spaces
MkText(w, n) == [i \in 1..(IF n = 0 THEN 0 ELSE 2 * n - 1) |-> IF i % 2 = 1 THEN w ELSE " "]

WithText(e, t) == [e EXCEPT !.text = t]

Wrappers ==
    {<<>>,
     <<[tag |-> "nav", attrs |-> NoAttrs]>>,
     <<[tag |-> "div", attrs |-> [NoAttrs EXCEPT !.class = << <<"sidebar">>, <<"promo">> >>]]>>}

Blocks ==
    {[tag |-> "article", attrs |-> NoAttrs],
     [tag |-> "article", attrs |-> [NoAttrs EXCEPT !.class = << <<"related", "-", "articles">> >>]],
     [tag |-> "div", attrs |-> [NoAttrs EXCEPT !.class = << <<"article", "-", "body">> >>]],
     [tag |-> "div", attrs |-> [NoAttrs EXCEPT !.id = <<"story">>, !.class = << <<"Share">> >>]]}

BlockParagraphWords == {0, 7, 40, 60}
SiblingParagraphWords == {0, 30, 80}

ExtractDoc(w, b, bp, nc, sp) ==
    LET wrap == IF w = <<>> THEN <<>>
                ELSE <<WithText(Element(w[1].tag, 0, w[1].attrs), MkText("ww", 3))>>
        bi == Len(wrap) + 1
        block == <<Element(b.tag, Len(wrap), b.attrs)>>
        para == IF bp = 0 THEN <<>>
                ELSE <<WithText(Element("p", bi, NoAttrs), MkText("wp", bp))>>
        ni == bi + Len(para) + 1
        noise == IF nc THEN <<Element("nav", bi, NoAttrs),
                              WithText(Element("p", ni, NoAttrs), MkText("wn", 9))>>
                 ELSE <<>>
        si == bi + Len(para) + Len(noise) + 1
        sib == IF sp = 0 THEN <<>>
               ELSE <<Element("div", 0, NoAttrs),
                      WithText(Element("p", si, NoAttrs), MkText("ws", sp))>>
    IN wrap \o block \o para \o noise \o sib

ExtractDocs ==
    {ExtractDoc(w, b, bp, nc, sp) :
        w \in Wrappers, b \in Blocks, bp \in BlockParagraphWords,
        nc \in BOOLEAN, sp \in SiblingParagraphWords}

LibraryOutcomes(markup) ==
    {[kind |-> "missing", root |-> 0], [kind |-> "raises", root |-> 0]}
    \cup {[kind |-> "summary", root |-> r] : r \in 0..Len(markup)}

InitExtract ==
    /\ pc = "extract"
    /\ html \in ExtractDocs
    /\ readability \in LibraryOutcomes(html)
    /\ extraction = NoExtraction
    /\ IdleSum
    /\ IdlePrune
    /\ IdleLinks
    /\ IdleCrawl

Extract ==
    /\ pc = "extract"
    /\ extraction' = extract_run(html, readability)
    /\ pc' = "extracted"
    /\ UNCHANGED <<sumVars, html, pruneVars, readability, linkVars, crawlVars, callVars, scheduleVars, searchVars>>

NextExtract == Extract

SpecExtract == InitExtract /\ [][NextExtract]_vars

Range(f) == {f[i] : i \in DOMAIN f}

\* C6: when the readability result has at least 80 words
\* extract_readable_text returns exactly that result, whatever the primary
\* path would yield; a readability result of fewer than 80 words is not
\* returned at this step (the primary path runs).
C6_ReadabilityPrecedence ==
    pc = "extracted" =>
        LET readability_text == _extract_with_readability(html, readability)
        IN /\ WordCount(readability_text) >= 80 =>
                  /\ extraction.text = readability_text
                  /\ extraction.steps = <<"readability">>
           /\ WordCount(readability_text) < 80 =>
                  /\ Len(extraction.steps) >= 2
                  /\ extraction.steps[2] = "primary"

\* the readability result has exactly 80 words and is returned although the
\* primary path yields a different, non-empty text of fewer than 60 words
C6_Witness ==
    /\ pc = "extracted"
    /\ WordCount(extraction.text) = 80
    /\ extraction.steps = <<"readability">>
    /\ LET c == _pick_content_container(BeautifulSoup(html))
           primary == ContainerText(_prune_noise(BeautifulSoup(html), c), c)
       IN WordCount(primary) \in 1..59 /\ primary # extraction.text

\* the element is of a noise kind or carries a noise hint
IsNoise(e) == e.tag \in NOISE_TAGS \/ _looks_like_noise(e)

NoNoiseBelow(tree, c) ==
    \A i \in Descendants(tree, c) : ~ IsNoise(tree.nodes[i])

\* the elements of the markup strictly below c that are noise, or lie
\* inside a noise element that is itself strictly below c
NoiseBelow(nodes, c) ==
    {i \in 1..Len(nodes) :
        \E a \in 1..Len(nodes) :
            /\ a # c /\ IsWithin(nodes, a, c)
            /\ IsWithin(nodes, i, a)
            /\ IsNoise(nodes[a])}

\* the elements that are noise or lie inside a noise element
InsideNoise(nodes) == NoiseBelow(nodes, 0)

WordsOf(nodes, S) == UNION {Range(nodes[i].text) \ Whitespace : i \in S}

Mentions(t, words) == Range(t) \cap words # {}

\* the trees extract_readable_text pruned, each with its container
PrunedTreesClean ==
    /\ "primary" \in Range(extraction.steps) =>
           NoNoiseBelow(extraction.soup, extraction.content_root)
    /\ "whole_document" \in Range(extraction.steps) =>
           NoNoiseBelow(extraction.fallback_soup, 0)
    /\ readability.kind = "summary" =>
           NoNoiseBelow(readability_soup(html, readability), 0)

\* C9 as stated: after NoisePruner has run on a container no descendant of
\* the container is of a noise kind or carries a noise hint, and text located
\* inside such elements never appears in the extracted text of any strategy.
\* Stated here for the two strategies the repository implements itself, the
\* primary container path and the whole-document retry (what the readability
\* library returns is not the repository's doing).
C9_NoNoiseTextAnywhere ==
    pc = "extracted" =>
        /\ PrunedTreesClean
        /\ \A t \in {extraction.primary_text, extraction.fallback_text} :
               ~ Mentions(t, WordsOf(html, InsideNoise(html)))

\* C9 as amended: after NoisePruner has run on a container no descendant of
\* the container is of a noise kind or carries a noise hint, and text located
\* inside such a descendant never appears in the text a strategy extracts
\* from that container (the container itself and what encloses it are not
\* pruned).
C9_NoNoiseTextBelowContainer ==
    pc = "extracted" =>
        /\ PrunedTreesClean
        /\ ~ Mentions(extraction.primary_text,
                      WordsOf(html, NoiseBelow(html, extraction.content_root)))
        /\ ~ Mentions(extraction.fallback_text, WordsOf(html, NoiseBelow(html, 0)))
        /\ readability.kind = "summary" =>
               LET summary_markup == SubDoc(html, readability.root)
               IN ~ Mentions(extraction.readability_text,
                             WordsOf(summary_markup, NoiseBelow(summary_markup, 0)))

\* the primary path ran on a container below the document that had a nav
\* with text inside it, and its text, without the nav's, is the answer
C9_Witness ==
    /\ pc = "extracted"
    /\ extraction.steps = <<"readability", "primary">>
    /\ extraction.content_root # 0
    /\ WordsOf(html, NoiseBelow(html, extraction.content_root)) # {}
    /\ extraction.text = extraction.primary_text
    /\ WordCount(extraction.text) >= 60

(***************************************************************************)
(* extract_links over pages of up to MaxAnchors anchors                    *)
(***************************************************************************)
MaxAnchors == 3
MaxLinksArg == 4
NegLinks == 2

StartUrl == <<"https", ":", "//", "example", ".", "com", "/", "news">>

Anchor(parent, href, anchor_text) ==
    [Element("a", parent, NoAttrs) EXCEPT !.href = <<href>>, !.text = anchor_text]

\* <<href, anchor text>>: an article, the same article with a fragment, a
\* login page on another host, an account page without text, a fragment,
\* a mail address, an ftp download, a contact page written with blanks
ArticleAnchor ==
    <<<<"/", "news", "/", "article", "s", "/", "abc">>,
      <<"Read", " ", "the", " ", "full", " ", "story", " ", "here">>>>
LoginAnchor == <<<<"https", ":", "//", "other", ".", "com", "/", "login">>, <<"Login">>>>
AccountAnchor == <<<<"/", "account">>, <<>>>>
ContactAnchor == <<<<" ", "/", "contact", " ">>, <<>>>>
AboutAnchor == <<<<"/", "about">>, <<"About", " ", "us">>>>
InfoAnchor == <<<<"/", "info">>, <<"More", " ", "info">>>>

AnchorKinds ==
    {ArticleAnchor,
     <<<<"/", "news", "/", "article", "s", "/", "abc", "#", "comments">>, <<"Comments">>>>,
     LoginAnchor,
     AccountAnchor,
     <<<<"#", "top">>, <<"Back", " ", "to", " ", "top">>>>,
     <<<<"mailto", ":", "desk">>, <<"Mail">>>>,
     <<<<"ftp", ":", "//", "example", ".", "com", "/", "file">>, <<"Download">>>>,
     ContactAnchor}

\* the anchors in document order; the first `inside` of them sit in a
\* <div class="content">, the others directly under the body
LinkDoc(kinds, inside) ==
    LET block == [Element("div", 0, [NoAttrs EXCEPT !.class = <<<<"content">>>>])
                    EXCEPT !.text = <<>>]
        shift == IF inside > 0 THEN 1 ELSE 0
    IN (IF inside > 0 THEN <<block>> ELSE <<>>)
       \o [k \in 1..Len(kinds) |->
              Anchor(IF k <= inside THEN 1 ELSE 0, kinds[k][1], kinds[k][2])]

LinkDocs ==
    {LinkDoc(kinds, inside) :
        <<kinds, inside>> \in
            {<<ks, ins>> \in (UNION {[1..n -> AnchorKinds] : n \in 0..MaxAnchors})
                              \X (0..MaxAnchors) :
                ins \in {0, Max(Len(ks) - 1, Min(Len(ks), 1))}}}

MaxLinksValues == (0 - NegLinks)..MaxLinksArg

InitLinks ==
    /\ pc = "extract_links"
    /\ html \in LinkDocs
    /\ start_url = StartUrl
    /\ max_links \in MaxLinksValues
    /\ selected = <<>>
    /\ IdleCalls
    /\ IdleSum
    /\ IdlePrune
    /\ IdleExtract
    /\ IdleCrawl

ExtractLinks ==
    /\ pc = "extract_links"
    /\ selected' = extract_links(start_url, html, max_links)
    /\ pc' = "links_extracted"
    /\ UNCHANGED <<sumVars, html, pruneVars, extractVars, start_url, max_links, crawlVars,
                   callVars, scheduleVars, searchVars>>

NextLinks == ExtractLinks

SpecLinks == InitLinks /\ [][NextLinks]_vars

\* the candidate list extract_links built from the page of the current state
Candidates == sorted_links(start_url, html)


(***************************************************************************)
(* The network: what requests.get does with a URL                          *)
(***************************************************************************)
HTML_TYPE == <<"text", "/", "html">>

\* the content-type header of a response; <<>>: the header is missing
ContentTypes ==
    {<<"Text", "/", "HTML", ";", " ", "charset=utf-8">>,
     <<"application", "/", "json">>,
     <<"application", "/", "x", "html", "+", "xml">>,
     <<>>}

NoReply == [kind |-> "none", content_type |-> <<>>, page |-> <<>>]

\* requests.get followed by raise_for_status: a Timeout, a ConnectionError,
\* an HTTPError, or a response with a content type and a body
Replies(pages) ==
    {[NoReply EXCEPT !.kind = k] : k \in {"Timeout", "ConnectionError", "HTTPError"}}
    \cup {[kind |-> "ok", content_type |-> ct, page |-> page] :
             ct \in ContentTypes, page \in pages}

\* fetch_html: what it raises ("": nothing) and what it returns
fetch_html(reply) ==
    IF reply.kind # "ok"
    THEN [raised |-> reply.kind, message |-> <<reply.kind>>, html |-> <<>>]
    ELSE IF ~Contains(Lower(reply.content_type), HTML_TYPE)
    THEN [raised |-> "ValueError",
          message |-> <<"Unsupported content type: ">>
                      \o (IF reply.content_type = <<>> THEN <<"unknown">>
                          ELSE reply.content_type),
          html |-> <<>>]
    ELSE [raised |-> "", message |-> <<>>, html |-> reply.page]

\* fetch_url_text of Gen2WebSearch: the content type is returned lowercased
fetch_url_text(reply) ==
    IF reply.kind # "ok"
    THEN [raised |-> reply.kind, message |-> <<reply.kind>>, html |-> <<>>,
          content_type |-> <<>>]
    ELSE [raised |-> "", message |-> <<>>, html |-> reply.page,
          content_type |-> Lower(reply.content_type)]

(***************************************************************************)
(* Gen2WebText: process_link.  Gen2WebSearch: summarize_linked_page.       *)
(***************************************************************************)
ErrorEntry(link, status) ==
    [anchor_text |-> link.anchor_text, url |-> link.url, page_summary |-> <<>>,
     page_words |-> 0, page_status |-> status]

\* len(summary.split()) if summary else 0
SummaryWords(summary_) == IF summary_ # <<>> THEN WordCount(summary_) ELSE 0

\* process_link once the summary is there
SummaryEntry(link, summary_) ==
    IF summary_ = <<>>
    THEN ErrorEntry(link, <<"error: ", "empty extracted text">>)
    ELSE [anchor_text |-> link.anchor_text, url |-> link.url,
          page_summary |-> summary_, page_words |-> SummaryWords(summary_),
          page_status |-> <<"ok">>]

process_link(link, reply, lib, words_per_page) ==
    LET fetched == fetch_html(reply)
    IN IF fetched.raised = ""
       THEN SummaryEntry(link, summarize_words(extract_readable_text(fetched.html, lib),
                                               words_per_page))
       ELSE IF fetched.raised = "Timeout"
       THEN ErrorEntry(link, <<"error: ", "timeout">>)
       ELSE IF fetched.raised = "ConnectionError"
       THEN ErrorEntry(link, <<"error: ", "connection ">> \o fetched.message)
       ELSE IF fetched.raised = "HTTPError"
       THEN ErrorEntry(link, <<"error: ", "HTTP ", "status_code">>)
       ELSE ErrorEntry(link, <<"error: ">> \o fetched.message)

\* the payloads process_link hands to extract_readable_text
process_link_extracts(reply) ==
    IF fetch_html(reply).raised = "" THEN <<reply.content_type>> ELSE <<>>

\* summarize_linked_page: [raised, summary, word_count, status]
Returned(summary_, word_count, status) ==
    [raised |-> "", message |-> <<>>, summary |-> summary_, word_count |-> word_count,
     status |-> status]

\* summarize_linked_page once the summary is there
SummaryReturned(url, summary_) ==
    IF summary_ = <<>>
    THEN Returned(<<>>, 0, <<"error: ", "empty extracted text">>)
    ELSE Returned(summary_, SummaryWords(summary_), <<"ok (">> \o url \o <<")">>)

summarize_linked_page(url, reply, lib, target_words_) ==
    LET fetched == fetch_url_text(reply)
    IN IF urlparse(url).scheme \notin {"http", "https"}
       THEN Returned(<<>>, 0, <<"skipped: ", "unsupported scheme">>)
       ELSE IF fetched.raised # ""
       THEN [raised |-> fetched.raised, message |-> fetched.message, summary |-> <<>>,
             word_count |-> 0, status |-> <<>>]
       ELSE IF fetched.content_type # <<>> /\ ~Contains(fetched.content_type, <<"html">>)
       THEN Returned(<<>>, 0, <<"skipped: ", "non-html (">> \o fetched.content_type \o <<")">>)
       ELSE SummaryReturned(url, summarize_words(extract_readable_text(fetched.html, lib),
                                                 target_words_))

\* the payloads summarize_linked_page hands to extract_readable_text
summarize_linked_page_extracts(url, reply) ==
    LET fetched == fetch_url_text(reply)
    IN IF /\ urlparse(url).scheme \in {"http", "https"}
          /\ fetched.raised = ""
          /\ ~(fetched.content_type # <<>> /\ ~Contains(fetched.content_type, <<"html">>))
       THEN <<reply.content_type>> ELSE <<>>

\* the body of the loop of enrich_results_with_page_text
Enriched(result, page) ==
    IF page.raised = ""
    THEN [page_summary |-> page.summary, page_words |-> page.word_count,
          page_status |-> page.status] @@ result
    ELSE [page_summary |-> <<>>, page_words |-> 0,
          page_status |-> <<"error: ">> \o page.message] @@ result

enrich_entry(result, reply, lib, words_per_page) ==
    Enriched(result, summarize_linked_page(result.url, reply, lib, words_per_page))

\* the anchors with an href below the content container, in document order
ContainerAnchors ==
    LET tree == BeautifulSoup(html)
    IN SelectSeq(find_all(tree, _pick_content_container(tree), {"a"}),
                 LAMBDA i : html[i].href # <<>>)

\* the href is one extract_links keeps: not empty, not a fragment, not a
\* javascript:, mailto: or tel: reference, and http(s) once resolved
UsableHref(raw) ==
    LET href == Strip(raw)
    IN /\ href # <<>>
       /\ href[1] \notin {"#"}
       /\ ~(Len(href) >= 2 /\ href[1] \in {"javascript", "mailto", "tel"} /\ href[2] = ":")
       /\ urlparse(urljoin(start_url, href)).scheme \in {"http", "https"}

\* the absolute URL of an href with the fragment stripped
NormalizedTarget(raw) ==
    geturl([urlparse(urljoin(start_url, Strip(raw))) EXCEPT !.fragment = <<>>])

UsableAnchors ==
    {k \in 1..Len(ContainerAnchors) : UsableHref(html[ContainerAnchors[k]].href[1])}

\* C2: for every page, start URL and max_links >= 0, extract_links never
\* returns more than max_links entries, whether the admission loop or the
\* zero-selected fallback branch filled the output.
C2_AtMostMaxLinks ==
    (pc = "links_extracted" /\ max_links >= 0) => Len(selected) <= max_links

\* the limit cuts the candidate list short
C2_Witness ==
    /\ pc = "links_extracted"
    /\ max_links >= 1
    /\ Len(Candidates) > max_links
    /\ Len(selected) = max_links

\* C2 as stated, for every max_links value, a negative max_links read in
\* the claim's favour as "no entry at all"
C2_AtMostMaxLinksAnyValue ==
    pc = "links_extracted" => Len(selected) <= Max(max_links, 0)

\* C3: extract_links never returns two entries with the same normalized URL
\* (absolute, fragment stripped); every entry carries the anchor text of the
\* first usable anchor of the container that has this target.
C3_NoDuplicateUrls ==
    pc = "links_extracted" =>
        /\ \A i, j \in 1..Len(selected) : i # j => selected[i].url # selected[j].url
        /\ \A i \in 1..Len(selected) :
              /\ \A a \in 1..Len(selected[i].url) : selected[i].url[a] # "#"
              /\ \E k \in UsableAnchors :
                    /\ NormalizedTarget(html[ContainerAnchors[k]].href[1]) = selected[i].url
                    /\ \A e \in UsableAnchors :
                          NormalizedTarget(html[ContainerAnchors[e]].href[1]) = selected[i].url
                              => k <= e
                    /\ selected[i].anchor_text
                          = JoinSp(Split(get_text(BeautifulSoup(html), ContainerAnchors[k])))

\* two usable anchors whose hrefs differ only by the fragment, one entry
C3_Witness ==
    /\ pc = "links_extracted"
    /\ \E k, e \in UsableAnchors :
          /\ k < e
          /\ html[ContainerAnchors[k]].href # html[ContainerAnchors[e]].href
          /\ NormalizedTarget(html[ContainerAnchors[k]].href[1])
                = NormalizedTarget(html[ContainerAnchors[e]].href[1])
          /\ \E i \in 1..Len(selected) :
                selected[i].url = NormalizedTarget(html[ContainerAnchors[k]].href[1])

\* C10: whenever the content container holds at least one usable link
\* candidate, extract_links returns a non-empty list, for every max_links >= 1.
C10_NonEmptyFromOne ==
    (pc = "links_extracted" /\ max_links >= 1 /\ UsableAnchors # {}) => selected # <<>>

\* every candidate has a negative score and one is returned all the same
C10_Witness ==
    /\ pc = "links_extracted"
    /\ max_links >= 1
    /\ UsableAnchors # {}
    /\ \A k \in 1..Len(Candidates) : Candidates[k].score < 0
    /\ selected # <<>>

\* C10 as stated: for every requested max_links
C10_NonEmptyForAny ==
    (pc = "links_extracted" /\ UsableAnchors # {}) => selected # <<>>

\* the score and the discovery index of a returned entry, from the page
ScoreOf(entry) ==
    _link_score(Lower(urlparse(start_url).netloc), entry.url, entry.anchor_text)

DiscoveryIndex(entry) ==
    CHOOSE k \in UsableAnchors :
        /\ NormalizedTarget(html[ContainerAnchors[k]].href[1]) = entry.url
        /\ \A e \in UsableAnchors :
              NormalizedTarget(html[ContainerAnchors[e]].href[1]) = entry.url => k <= e

\* C19: the list extract_links returns is ordered by score descending and,
\* among equal scores, by discovery index ascending: no entry is preceded
\* by one of lower score or by one of equal score discovered later.
C19_OrderedByScoreThenIndex ==
    pc = "links_extracted" =>
        \A i, j \in 1..Len(selected) :
            i < j =>
                \/ ScoreOf(selected[i]) > ScoreOf(selected[j])
                \/ /\ ScoreOf(selected[i]) = ScoreOf(selected[j])
                   /\ DiscoveryIndex(selected[i]) < DiscoveryIndex(selected[j])

\* two of three candidates returned, of equal score, in the order of the page
C19_Witness ==
    /\ pc = "links_extracted"
    /\ Len(selected) = 2
    /\ Len(Candidates) = 3
    /\ ScoreOf(selected[1]) = ScoreOf(selected[2])
    /\ DiscoveryIndex(selected[1]) < DiscoveryIndex(selected[2])

\* what the admission loop alone selects
LoopSelected(links) == AdmitLinks(links, <<>>, max_links)

FallbackOnlyBelowOne(links) ==
    /\ (max_links >= 1 /\ links # <<>>) =>
          /\ selected # <<>>
          /\ selected[1] = Entry(links[1])
    /\ selected # LoopSelected(links) => max_links <= 0
    /\ max_links <= 0 => LoopSelected(links) = <<>>
    /\ max_links < 0 =>
          selected = [k \in 1..Max(0, Len(links) + max_links) |-> Entry(links[k])]

\* C27: for every max_links >= 1 the top-ranked candidate is admitted by
\* the loop whatever its sign, so the zero-selected fallback branch changes
\* the result only for max_links <= 0; for a negative max_links it returns
\* all candidates but the last |max_links|.
C27_FallbackOnlyBelowOne ==
    pc = "links_extracted" => \A links \in {Candidates} : FallbackOnlyBelowOne(links)

\* max_links = -1 on a page of three candidates: the first two come back
C27_Witness ==
    /\ pc = "links_extracted"
    /\ max_links = 0 - 1
    /\ Len(Candidates) = 3
    /\ Len(selected) = 2
    /\ selected[1] = Entry(Candidates[1])

(***************************************************************************)
(* The crawl: main() of Gen2WebText (start page, then its links) and of    *)
(* Gen2WebSearch (search results, then the linked pages)                   *)
(***************************************************************************)
MaxResults == 2
MAX_LINKS_LIMIT == 25
MIN_WORDS_PER_PAGE == 80
MAX_WORDS_PER_PAGE == 400

Paragraph(parent, t) == WithText(Element("p", parent, NoAttrs), t)

FtpUrl == <<"ftp", ":", "//", "example", ".", "com", "/", "file">>

\* an empty page, a page of text without links, two links without any
\* text, four links with text, a navigation block holding the only link
StartPages ==
    {<<>>,
     <<Paragraph(0, MkText("intro", 3))>>,
     LinkDoc(<<AccountAnchor, ContactAnchor>>, 0),
     LinkDoc(<<ArticleAnchor, LoginAnchor, AboutAnchor, InfoAnchor>>, 0),
     <<Element("nav", 0, NoAttrs), Anchor(1, ArticleAnchor[1], ArticleAnchor[2])>>}

\* an empty page, a page of text, a page that is a navigation block only
LinkedPages ==
    {<<>>,
     <<Paragraph(0, MkText("body", 3))>>,
     <<WithText(Element("nav", 0, NoAttrs), <<"Menu">>)>>}

\* --max-links and --words as given on the command line
MaxLinksArgs == (0 - NegLinks)..MaxLinksArg
WordsArgs == {0, 500}

SearchUrls == {urljoin(StartUrl, ArticleAnchor[1]), FtpUrl}

\* the rows extract_results_from_html returns: rank is the position
SearchResultLists ==
    UNION {{[k \in 1..n |-> [rank |-> k, title |-> <<"title">>, url |-> urls[k]]] :
                urls \in [1..n -> SearchUrls]} : n \in 0..MaxResults}

validate_url(url) ==
    IF url = <<>> THEN <<"URL must be a non-empty string">>
    ELSE IF urlparse(url).scheme \notin {"http", "https"}
    THEN <<"URL must use http or https scheme">>
    ELSE <<>>

ErrorResponse(message) == [NoResponse EXCEPT !.status = "error", !.error = message]

Init ==
    /\ skill \in {"Gen2WebText", "Gen2WebSearch"}
    /\ pc = IF skill = "Gen2WebText" THEN "validate" ELSE "search"
    /\ start_url \in IF skill = "Gen2WebText" THEN {StartUrl, FtpUrl} ELSE {<<>>}
    /\ max_links \in IF skill = "Gen2WebText"
                     THEN {Max(1, Min(a, MAX_LINKS_LIMIT)) : a \in MaxLinksArgs}
                     ELSE {0}
    /\ target_words \in {Max(MIN_WORDS_PER_PAGE, Min(w, MAX_WORDS_PER_PAGE)) : w \in WordsArgs}
    /\ text = <<>>
    /\ summary = <<>>
    /\ html = <<>>
    /\ selected = <<>>
    /\ IdleCalls
    /\ content_type = <<>>
    /\ start_page = NoStartPage
    /\ results = <<>>
    /\ outcomes = <<>>
    /\ extract_calls = <<>>
    /\ response = NoResponse
    /\ IdlePrune
    /\ IdleExtract

\* main of Gen2WebText, the first try block
ValidateUrl ==
    /\ pc = "validate"
    /\ IF validate_url(start_url) = <<>>
       THEN pc' = "fetch_start" /\ UNCHANGED response
       ELSE pc' = "done" /\ response' = ErrorResponse(validate_url(start_url))
    /\ UNCHANGED <<sumVars, html, pruneVars, extractVars, linkVars, skill, content_type,
                   start_page, results, outcomes, extract_calls,
                   callVars, scheduleVars, searchVars>>

\* start_html, resolved_start_url = fetch_html(start_url, timeout_seconds)
FetchStartPage ==
    /\ pc = "fetch_start"
    /\ \E reply \in Replies(StartPages) :
          LET fetched == fetch_html(reply)
          IN IF fetched.raised # ""
             THEN /\ response' = ErrorResponse(fetched.message)
                  /\ pc' = "done"
                  /\ UNCHANGED <<html, content_type>>
             ELSE /\ html' = fetched.html
                  /\ content_type' = reply.content_type
                  /\ pc' = "summarize_start"
                  /\ UNCHANGED response
    /\ UNCHANGED <<sumVars, pruneVars, extractVars, linkVars, skill, start_page, results,
                   outcomes, extract_calls,
                   callVars, scheduleVars, searchVars>>

\* start_text, start_summary, start_words
SummarizeStartPage ==
    /\ pc = "summarize_start"
    /\ \E lib \in LibraryOutcomes(html) :
          \E start_text \in {extract_readable_text(html, lib)} :
              \E start_summary \in {summarize_words(start_text, target_words)} :
                  start_page' = [text |-> start_text, summary |-> start_summary,
                                 words |-> SummaryWords(start_summary)]
    /\ extract_calls' = Append(extract_calls, content_type)
    /\ pc' = "select_links"
    /\ UNCHANGED <<sumVars, html, pruneVars, extractVars, linkVars, skill, content_type,
                   results, outcomes, response,
                   callVars, scheduleVars, searchVars>>

\* links = extract_links(resolved_start_url, start_html, max_links)
SelectLinks ==
    /\ pc = "select_links"
    /\ selected' = extract_links(start_url, html, max_links)
    /\ pc' = "process_links"
    /\ UNCHANGED <<sumVars, html, pruneVars, extractVars, start_url, max_links, crawlVars,
                   callVars, scheduleVars, searchVars>>

\* one turn of the loop over the links, a raised exception leaving the loop
\* for the except branch of main
ProcessLinkAborting ==
    /\ pc = "process_links"
    /\ Len(results) < Len(selected)
    /\ \E reply \in Replies(LinkedPages) :
          \E lib \in LibraryOutcomes(reply.page) :
              LET index == Len(results) + 1
                  entry == process_link(selected[index], reply, lib, target_words)
              IN IF fetch_html(reply).raised # ""
                 THEN /\ response' = ErrorResponse(fetch_html(reply).message)
                      /\ pc' = "done"
                      /\ UNCHANGED <<results, outcomes, extract_calls>>
                 ELSE /\ results' = Append(results, [rank |-> index] @@ entry)
                      /\ outcomes' = Append(outcomes, reply)
                      /\ extract_calls' = extract_calls \o process_link_extracts(reply)
                      /\ UNCHANGED <<pc, response>>
    /\ UNCHANGED <<sumVars, html, pruneVars, extractVars, linkVars, skill, content_type,
                   start_page,
                   callVars, scheduleVars, searchVars>>

\* one turn of the loop over the links
ProcessLink ==
    /\ pc = "process_links"
    /\ Len(results) < Len(selected)
    /\ \E reply \in Replies(LinkedPages) :
          \E lib \in LibraryOutcomes(reply.page) :
              LET index == Len(results) + 1
                  entry == process_link(selected[index], reply, lib, target_words)
              IN /\ results' = Append(results, [rank |-> index] @@ entry)
                 /\ outcomes' = Append(outcomes, reply)
                 /\ extract_calls' = extract_calls \o process_link_extracts(reply)
    /\ UNCHANGED <<pc, sumVars, html, pruneVars, extractVars, linkVars, skill, content_type,
                   start_page, response,
                   callVars, scheduleVars, searchVars>>

\* write_log and the response; a log that cannot be written raises into
\* the except branch of main
WriteLog ==
    /\ pc = "process_links"
    /\ Len(results) = Len(selected)
    /\ \E written \in BOOLEAN :
          response' = IF written
                      THEN [status |-> "ok", error |-> <<>>,
                            start_page_summary |-> start_page.summary,
                            start_page_words |-> start_page.words,
                            results |-> results, links_processed |-> Len(results)]
                      ELSE ErrorResponse(<<"OSError">>)
    /\ pc' = "done"
    /\ UNCHANGED <<sumVars, html, pruneVars, extractVars, linkVars, skill, content_type,
                   start_page, results, outcomes, extract_calls,
                   callVars, scheduleVars, searchVars>>

\* main of Gen2WebSearch: the search itself raises, or yields result rows
Search ==
    /\ pc = "search"
    /\ \/ /\ response' = ErrorResponse(<<"Timeout">>)
          /\ pc' = "done"
          /\ UNCHANGED selected
       \/ /\ selected' \in SearchResultLists
          /\ pc' = "enrich"
          /\ UNCHANGED response
    /\ UNCHANGED <<sumVars, html, pruneVars, extractVars, start_url, max_links, skill,
                   content_type, start_page, results, outcomes, extract_calls,
                   callVars, scheduleVars, searchVars>>

\* one turn of the loop of enrich_results_with_page_text
EnrichResult ==
    /\ pc = "enrich"
    /\ Len(results) < Len(selected)
    /\ \E reply \in Replies(LinkedPages) :
          \E lib \in LibraryOutcomes(reply.page) :
              LET result == selected[Len(results) + 1]
              IN /\ results' = Append(results, enrich_entry(result, reply, lib, target_words))
                 /\ outcomes' = Append(outcomes, reply)
                 /\ extract_calls' = extract_calls
                                     \o summarize_linked_page_extracts(result.url, reply)
    /\ UNCHANGED <<pc, sumVars, html, pruneVars, extractVars, linkVars, skill, content_type,
                   start_page, response,
                   callVars, scheduleVars, searchVars>>

\* write_search_plus_log and the response ("count" is links_processed here)
WriteSearchLog ==
    /\ pc = "enrich"
    /\ Len(results) = Len(selected)
    /\ \E written \in BOOLEAN :
          response' = IF written
                      THEN [NoResponse EXCEPT !.status = "ok", !.results = results,
                                              !.links_processed = Len(results)]
                      ELSE ErrorResponse(<<"OSError">>)
    /\ pc' = "done"
    /\ UNCHANGED <<sumVars, html, pruneVars, extractVars, linkVars, skill, content_type,
                   start_page, results, outcomes, extract_calls,
                   callVars, scheduleVars, searchVars>>

Next ==
    \/ ValidateUrl
    \/ FetchStartPage
    \/ SummarizeStartPage
    \/ SelectLinks
    \/ ProcessLink
    \/ WriteLog
    \/ Search
    \/ EnrichResult
    \/ WriteSearchLog

Spec == Init /\ [][Next]_vars

IsOkStatus(status) == status # <<>> /\ status[1] \in {"ok", "ok ("}
IsErrorStatus(status) == status # <<>> /\ status[1] = "error: "
DeclaresHtml(ct) == Contains(Lower(ct), <<"html">>)

\* the link's request failed, or answered with a declared type that is not
\* HTML, or with an empty page
FailedLink(reply) ==
    \/ reply.kind # "ok"
    \/ reply.content_type # <<>> /\ ~DeclaresHtml(reply.content_type)
    \/ reply.page = <<>>

\* C4: the selected links are processed one at a time in the order the link
\* scorer returned them; whatever each link meets, exactly one entry is
\* recorded per link, with ranks 1..n in that order; a failing link gets an
\* error status and the remaining links are still processed, so the run ends
\* with one entry per selected link and links_processed is their number.
C4_OneEntryPerLink ==
    /\ Len(results) <= Len(selected)
    /\ Len(outcomes) = Len(results)
    /\ \A k \in 1..Len(results) :
          /\ results[k].rank = k
          /\ results[k].url = selected[k].url
          /\ skill = "Gen2WebText" => results[k].anchor_text = selected[k].anchor_text
          /\ IsOkStatus(results[k].page_status) <=> results[k].page_summary # <<>>
          /\ FailedLink(outcomes[k]) =>
                /\ ~IsOkStatus(results[k].page_status)
                /\ results[k].page_words = 0
                /\ skill = "Gen2WebText" => IsErrorStatus(results[k].page_status)
    /\ pc = "done" => Len(results) = Len(selected)
    /\ response.status = "ok" =>
          /\ response.links_processed = Len(selected)
          /\ response.results = results

\* three links: the first times out, the third is summarized
C4_Witness ==
    /\ pc = "done"
    /\ skill = "Gen2WebText"
    /\ response.status = "ok"
    /\ response.links_processed = 3
    /\ outcomes[1].kind = "Timeout"
    /\ IsErrorStatus(results[1].page_status)
    /\ IsOkStatus(results[3].page_status)

\* C5: a page for which every extraction strategy yields empty text, the
\* start page as well as a linked page, is reported as an extraction error;
\* an empty text is never reported with status ok.
C5_EmptyTextIsError ==
    /\ \A k \in 1..Len(results) :
          results[k].page_summary = <<>> => ~IsOkStatus(results[k].page_status)
    /\ (skill = "Gen2WebText" /\ response.status = "ok") => start_page.text # <<>>

\* C7: in every skill that uses the extraction core, extract_readable_text
\* is never invoked on a payload whose content type, a missing one included,
\* does not declare HTML.
C7_ExtractOnlyDeclaredHtml ==
    \A i \in 1..Len(extract_calls) : DeclaresHtml(extract_calls[i])

(***************************************************************************)
(* Specification SpecAdmit: one call of extract_links, as main makes it    *)
(* (max_links clamped to 1..MAX_LINKS_LIMIT), on pages of distinct anchors *)
(* of which up to five score negative                                      *)
(***************************************************************************)
NegativeAnchors == 5
MixedAnchors == 4

RegisterAnchor == <<<<"/", "register">>, <<"Register">>>>
SignInAnchor == <<<<"/", "signin">>, <<"Sign", " ", "in">>>>

\* login/account anchors, all of negative score: -9, -3, -3, -7, -5
NegativeKinds == {LoginAnchor, AccountAnchor, ContactAnchor, RegisterAnchor, SignInAnchor}
\* anchors of score 10, 2 and 2
ContentKinds == {ArticleAnchor, AboutAnchor, InfoAnchor}
MixedKinds == ContentKinds \cup {LoginAnchor, AccountAnchor}

InjectiveSeqs(S, n) ==
    UNION {{ks \in [1..m -> S] : \A i, j \in 1..m : i # j => ks[i] # ks[j]} : m \in 0..n}

AdmitDocs ==
    {LinkDoc(kinds, 0) :
        kinds \in InjectiveSeqs(NegativeKinds, NegativeAnchors)
                  \cup InjectiveSeqs(MixedKinds, MixedAnchors)}

InitAdmit ==
    /\ pc = "extract_links"
    /\ html \in AdmitDocs
    /\ start_url = StartUrl
    /\ max_links \in 1..MAX_LINKS_LIMIT
    /\ selected = <<>>
    /\ IdleCalls
    /\ IdleSum
    /\ IdlePrune
    /\ IdleExtract
    /\ IdleCrawl

SpecAdmit == InitAdmit /\ [][NextLinks]_vars

Entries(links) == [k \in 1..Len(links) |-> Entry(links[k])]

\* the candidates in discovery order
ByIndex(links) ==
    [k \in 1..Len(links) |->
        links[CHOOSE i \in 1..Len(links) :
                 Cardinality({j \in 1..Len(links) : links[j].index < links[i].index}) = k - 1]]

AllNegative(links) == \A k \in 1..Len(links) : links[k].score < 0

\* C11: for a page whose candidate links all score negative (up to five
\* anchors matching login/account terms) and every max_links in 1..25,
\* extract_links returns the min(candidates, max_links, max(2, max_links // 2))
\* best candidates, in the order of the sort: at most 2 entries up to
\* max_links = 5, more from max_links = 6 on.
C11_NegativePage ==
    (pc = "links_extracted" /\ AllNegative(Candidates)) =>
        /\ selected = Entries(PySlicePrefix(Candidates,
                          Min(max_links, Max(2, max_links \div 2))))
        /\ max_links <= 5 => Len(selected) <= 2

\* five login/account anchors and max_links = 6: three entries
C11_Witness ==
    /\ pc = "links_extracted"
    /\ AllNegative(Candidates)
    /\ Len(Candidates) = 5
    /\ max_links = 6
    /\ Len(selected) = 3

\* C11 as stated: at most 2 entries, or else the first max_links candidates
\* in discovery order
C11_AtMostTwoOrDiscoveryOrder ==
    (pc = "links_extracted" /\ AllNegative(Candidates)) =>
        \/ Len(selected) <= 2
        \/ selected = Entries(PySlicePrefix(ByIndex(Candidates), max_links))

\* the positions of the sorted candidate list that the admission loop takes
Admitted(links) ==
    {p \in 1..Len(links) :
        /\ p <= max_links
        /\ links[p].score >= 0 \/ p <= Max(2, max_links \div 2)}

AdmittedPrefix(links) ==
    /\ Admitted(links) = 1..Cardinality(Admitted(links))
    /\ selected = Entries(PySlicePrefix(links, Cardinality(Admitted(links))))

\* C18: filling the output from the sorted candidates, a negative-scoring
\* candidate is admitted only while fewer than max(2, max_links // 2) entries
\* are selected, even if slots remain after that; a non-negative candidate
\* is admitted until max_links entries are selected.
C18_AdmissionCutoff ==
    pc = "links_extracted" => \A links \in {Candidates} : AdmittedPrefix(links)

\* more non-negative entries than the cutoff, and a negative candidate
\* refused although a slot is left
C18_Witness ==
    /\ pc = "links_extracted"
    /\ Len(selected) > Max(2, max_links \div 2)
    /\ Len(selected) < max_links
    /\ Len(selected) < Len(Candidates)
    /\ Candidates[Len(selected) + 1].score < 0

\* the list is in the order of the sort key (-score, index)
SortedByKey(links) ==
    \A i, j \in 1..Len(links) :
        i < j => \/ links[i].score > links[j].score
                 \/ links[i].score = links[j].score /\ links[i].index < links[j].index

PrefixOf(links) ==
    /\ SortedByKey(links)
    /\ \E n \in 0..Len(links) : selected = Entries(SubSeq(links, 1, n))

\* C26: the list extract_links returns is a prefix of the candidate list
\* sorted by score descending and discovery index ascending: no candidate
\* is skipped and a lower-ranked one admitted after it.
C26_PrefixOfSorted ==
    pc = "links_extracted" => \A links \in {Candidates} : PrefixOf(links)

\* a negative candidate is refused at the cutoff with slots left, and the
\* candidates behind it, negative too, are refused with it
C26_Witness ==
    /\ pc = "links_extracted"
    /\ Len(selected) < max_links
    /\ Len(Candidates) >= Len(selected) + 2
    /\ Len(selected) >= 2

(***************************************************************************)
(* Specification SpecPick: _pick_content_container on small trees of       *)
(* hinted and unhinted elements of a few words each                        *)
(***************************************************************************)
MaxScanNodes == 3

ScanKinds ==
    {[tag |-> "div", attrs |-> [NoAttrs EXCEPT !.class = << <<"content">> >>], words |-> 1],
     [tag |-> "div", attrs |-> [NoAttrs EXCEPT !.class = << <<"content">> >>], words |-> 2],
     [tag |-> "article", attrs |-> [NoAttrs EXCEPT !.id = <<"story">>], words |-> 1],
     [tag |-> "section", attrs |-> [NoAttrs EXCEPT !.class = << <<"story">> >>], words |-> 0],
     [tag |-> "div", attrs |-> [NoAttrs EXCEPT !.class = << <<"content">>, <<"nav">> >>],
      words |-> 2],
     [tag |-> "div", attrs |-> NoAttrs, words |-> 2]}

ScanDocs ==
    UNION {{[i \in 1..n |-> WithText(Element(k[i].tag, f[i], k[i].attrs),
                                     MkText("w", k[i].words))] :
               k \in [1..n -> ScanKinds], f \in ParentMaps(n)} : n \in 0..MaxScanNodes}

InitPick ==
    /\ pc = "pick"
    /\ html \in ScanDocs
    /\ soup = BeautifulSoup(html)
    /\ content_root = 0
    /\ pruned_once = NoTree
    /\ prune_runs = 0
    /\ IdleSum
    /\ IdleExtract
    /\ IdleLinks
    /\ IdleCrawl

Pick ==
    /\ pc = "pick"
    /\ content_root' = _pick_content_container(soup)
    /\ pc' = "picked"
    /\ UNCHANGED <<sumVars, html, soup, pruned_once, prune_runs, extractVars, linkVars,
                   crawlVars, callVars, scheduleVars, searchVars>>

NextPick == Pick

SpecPick == InitPick /\ [][NextPick]_vars

\* the elements the scan looks at and does not skip
Qualifying ==
    {i \in 1..Len(html) :
        /\ html[i].tag \in {"section", "div", "main", "article"}
        /\ \E hint \in CONTENT_HINTS : Contains(_attrs_to_text(html[i]), hint)
        /\ ~ _looks_like_noise(html[i])}

ScanWords(i) == WordCount(get_text(soup, i))

NoPreferred ==
    \A i \in 1..Len(html) :
        (html[i].tag \in {"article", "main"} \/ html[i].attrs.role = <<"main">>)
            => ScanWords(i) < PREFERRED_MIN_WORDS

\* C12: when no preferred selector qualifies, the element the scan selects
\* is a qualifying candidate of maximal word count, the first in document
\* order among those of that count; the whole document is the container
\* exactly when no qualifying candidate has a word.
C12_ScanPicksFirstMax ==
    (pc = "picked" /\ NoPreferred) =>
        IF \E i \in Qualifying : ScanWords(i) > 0
        THEN /\ content_root \in Qualifying
             /\ \A j \in Qualifying :
                   /\ ScanWords(j) <= ScanWords(content_root)
                   /\ ScanWords(j) = ScanWords(content_root) => content_root <= j
        ELSE content_root = 0

\* two qualifying candidates of the same, maximal word count: the first wins
C12_Witness ==
    /\ pc = "picked"
    /\ content_root \in Qualifying
    /\ \E j \in Qualifying :
          /\ j > content_root
          /\ ScanWords(j) = ScanWords(content_root)
          /\ ~ IsWithin(soup.nodes, j, content_root)

\* C22: in the scan an element whose id/class/role/aria-label text matches
\* a noise hint is never the container, even if it also matches a content
\* hint and has the largest word count of all scanned elements.
C22_NoisyNeverScanned ==
    (pc = "picked" /\ NoPreferred /\ content_root # 0) =>
        ~ _looks_like_noise(html[content_root])

\* a content- and noise-hinted element with more words than any other
\* element, a qualifying candidate inside it among them
C22_Witness ==
    /\ pc = "picked"
    /\ content_root \in Qualifying
    /\ \E i \in 1..Len(html) :
          /\ _looks_like_noise(html[i])
          /\ \E hint \in CONTENT_HINTS : Contains(_attrs_to_text(html[i]), hint)
          /\ \A j \in 1..Len(html) : j # i => ScanWords(j) < ScanWords(i)

(***************************************************************************)
(* Specification SpecSelect: _pick_content_container on small trees with   *)
(* article, main and role=main elements around the 60-word threshold       *)
(***************************************************************************)
MaxSelectNodes == 3

SelectKinds ==
    {[tag |-> "article", attrs |-> NoAttrs, words |-> 60],
     [tag |-> "article", attrs |-> NoAttrs, words |-> 59],
     [tag |-> "main", attrs |-> NoAttrs, words |-> 60],
     [tag |-> "main", attrs |-> NoAttrs, words |-> 59],
     [tag |-> "div", attrs |-> [NoAttrs EXCEPT !.role = <<"main">>], words |-> 60],
     [tag |-> "div", attrs |-> [NoAttrs EXCEPT !.class = << <<"content">> >>], words |-> 1],
     [tag |-> "section", attrs |-> [NoAttrs EXCEPT !.class = << <<"story">> >>], words |-> 0]}

SelectDocs(n) ==
    UNION {{[i \in 1..m |-> WithText(Element(k[i].tag, f[i], k[i].attrs),
                                     MkText("w", k[i].words))] :
               k \in [1..m -> SelectKinds], f \in ParentMaps(m)} : m \in 0..n}

InitSelect ==
    /\ pc = "pick"
    /\ html \in SelectDocs(MaxSelectNodes)
    /\ soup = BeautifulSoup(html)
    /\ content_root = 0
    /\ pruned_once = NoTree
    /\ prune_runs = 0
    /\ IdleSum
    /\ IdleExtract
    /\ IdleLinks
    /\ IdleCrawl

SpecSelect == InitSelect /\ [][NextPick]_vars

\* the first element a preferred selector matches, 0 if none
FirstMatch(selector) ==
    LET hits == {i \in 1..Len(html) :
                    CASE selector = "article" -> html[i].tag = "article"
                      [] selector = "main" -> html[i].tag = "main"
                      [] OTHER -> html[i].attrs.role = <<"main">>}
    IN IF hits = {} THEN 0 ELSE CHOOSE i \in hits : \A j \in hits : i <= j

Reaches(selector) ==
    FirstMatch(selector) # 0 /\ ScanWords(FirstMatch(selector)) >= 60

\* C21: the preferred selectors are tried in the order article, main,
\* role=main, each standing for the first element it matches; the first
\* whose element has at least 60 words of plain text is the container, and
\* an element of fewer than 60 words is not taken by this step.
C21_PreferredInOrder ==
    pc = "picked" =>
        /\ Reaches("article") => content_root = FirstMatch("article")
        /\ (~ Reaches("article") /\ Reaches("main")) => content_root = FirstMatch("main")
        /\ (~ Reaches("article") /\ ~ Reaches("main") /\ Reaches("role"))
              => content_root = FirstMatch("role")
        /\ (~ Reaches("article") /\ ~ Reaches("main") /\ ~ Reaches("role"))
              => content_root = 0 \/ content_root \in Qualifying

\* an article of 59 words is passed over for a main element of exactly 60
C21_Witness ==
    /\ pc = "picked"
    /\ FirstMatch("article") # 0
    /\ ScanWords(FirstMatch("article")) = 59
    /\ content_root = FirstMatch("main")
    /\ ScanWords(content_root) = 60

\* C23: _pick_content_container returns a container for every document:
\* the whole document exactly when no preferred selector reaches 60 words
\* and no scanned element has a content hint, no noise hint and a word
\* count above zero; an element of the document otherwise.
C23_Total ==
    pc = "picked" =>
        /\ content_root \in 0..Len(html)
        /\ content_root = 0 <=>
              /\ ~ Reaches("article") /\ ~ Reaches("main") /\ ~ Reaches("role")
              /\ \A i \in Qualifying : ScanWords(i) = 0

\* a page with a short article and a hinted section without words: the
\* whole document is the container
C23_Witness ==
    /\ pc = "picked"
    /\ content_root = 0
    /\ FirstMatch("article") # 0
    /\ Qualifying # {}

(***************************************************************************)
(* Specification SpecCalls: several calls of extract_links in one process, *)
(* each recorded with its arguments, its scored candidates and its result  *)
(***************************************************************************)
MaxCalls == 2
MaxCallAnchors == 2

CallKinds ==
    {ArticleAnchor,
     <<<<"/", "news", "/", "article", "s", "/", "abc", "#", "comments">>, <<"Comments">>>>,
     LoginAnchor}

CallDocs == {LinkDoc(kinds, 0) : kinds \in InjectiveSeqs(CallKinds, MaxCallAnchors)}

InitCalls ==
    /\ pc = "extract_links"
    /\ calls = <<>>
    /\ scored = NoScore
    /\ html = <<>>
    /\ start_url = <<>> /\ max_links = 0 /\ selected = <<>>
    /\ IdleSum
    /\ IdlePrune
    /\ IdleExtract
    /\ IdleSchedule
    /\ IdleSearch
    /\ IdleCrawl

CallExtractLinks ==
    /\ pc = "extract_links"
    /\ Len(calls) < MaxCalls
    /\ \E markup \in CallDocs, max_links_ \in {1, MAX_LINKS_LIMIT} :
          \E links \in {sorted_links(StartUrl, markup)} :
             calls' = Append(calls,
                             [html |-> markup, start_url |-> StartUrl,
                              max_links |-> max_links_, links |-> links,
                              returned |-> select_links(links, max_links_)])
    /\ UNCHANGED <<pc, sumVars, html, pruneVars, extractVars, linkVars, crawlVars, scored,
                   scheduleVars, searchVars>>

NextCalls == CallExtractLinks

SpecCalls == InitCalls /\ [][NextCalls]_vars

SameArguments(a, b) ==
    a.html = b.html /\ a.start_url = b.start_url /\ a.max_links = b.max_links

Ran(step) == step \in Range(extraction.steps)

\* the texts of the strategies, computed from the page
ReadabilityText == _extract_with_readability(html, readability)
WholeDocumentSoup == _prune_noise(BeautifulSoup(html), 0)
WholeDocumentText == ContainerText(WholeDocumentSoup, 0)

\* C15: whole-document reprocessing (a fresh parse of the whole page,
\* noise-pruned from the root, no container selection) is executed if and
\* only if the readability result has fewer than 80 words and the primary
\* text has fewer than 60; a primary text of 60 words or more is the final
\* answer and no later step runs.
C15_EscalateOnInsufficientYield ==
    pc = "extracted" =>
        /\ extraction.readability_text = ReadabilityText
        /\ Ran("whole_document") <=>
              /\ WordCount(ReadabilityText) < 80
              /\ WordCount(extraction.primary_text) < 60
        /\ Ran("whole_document") =>
              /\ extraction.fallback_soup = WholeDocumentSoup
              /\ extraction.fallback_text = WholeDocumentText
        /\ (Ran("primary") /\ WordCount(extraction.primary_text) >= 60) =>
              /\ extraction.text = extraction.primary_text
              /\ extraction.steps = <<"readability", "primary">>

\* both outcomes of the primary step: a 40-word primary text with a larger
\* whole document behind it is retried
C15_Witness ==
    /\ pc = "extracted"
    /\ Ran("whole_document")
    /\ WordCount(extraction.primary_text) = 40
    /\ WordCount(extraction.fallback_text) > 40

\* C16: when the primary text is below 60 words, the final answer is the
\* readability result, though below 80 words, if the whole-document
\* re-extraction is below 40 words and the readability result is not empty;
\* otherwise it is the whole-document re-extraction.
C16_ReadabilityRescue ==
    (pc = "extracted" /\ Ran("primary") /\ WordCount(extraction.primary_text) < 60) =>
        IF WordCount(WholeDocumentText) < 40 /\ ReadabilityText # <<>>
        THEN /\ extraction.text = ReadabilityText
             /\ WordCount(extraction.text) < 80
             /\ Ran("rescue")
        ELSE /\ extraction.text = WholeDocumentText
             /\ ~ Ran("rescue")

\* a short readability result replaces a shorter whole-document text
C16_Witness ==
    /\ pc = "extracted"
    /\ Ran("rescue")
    /\ extraction.text = extraction.readability_text
    /\ extraction.text # extraction.fallback_text
    /\ WordCount(extraction.text) < 80

\* C17: extract_readable_text returns a non-empty text whenever one of the
\* strategies that ran produced a non-empty text, and no step replaces a
\* text by one of fewer words.
C17_BestNonEmptyCandidate ==
    pc = "extracted" =>
        /\ (\/ extraction.readability_text # <<>>
            \/ extraction.primary_text # <<>>
            \/ extraction.fallback_text # <<>>) => extraction.text # <<>>
        /\ Ran("whole_document") =>
              WordCount(extraction.fallback_text) >= WordCount(extraction.primary_text)
        /\ Ran("rescue") =>
              WordCount(extraction.readability_text) >= WordCount(extraction.fallback_text)

(***************************************************************************)
(* Specification SpecScore: one call of _link_score                        *)
(***************************************************************************)
\* urlparse(start_url).netloc.lower() of a start URL: a host, a host with
\* a subdomain, no host at all (https:///news, https:news)
StartHosts == {<<"example", ".", "com">>, <<"www", ".", "example", ".", "com">>, <<>>}

\* the hosts of the links: the start host, in capitals, a subdomain, a host
\* that ends in the letters of the start host (notexample.com), another host
LinkHosts ==
    {<<"example", ".", "com">>,
     <<"Example", ".", "com">>,
     <<"www", ".", "example", ".", "com">>,
     <<"not", "example", ".", "com">>,
     <<"other", ".", "com">>}

LinkPaths == {<<>>, <<"/", "login">>, <<"/", "news", "/", "article", "s", "/", "abc">>}

AnchorTexts == {<<>>, <<"Login">>, <<"Read", " ", "the", " ", "full", " ", "story", " ", "here">>}

InitScore ==
    /\ pc = "link_score"
    /\ scored \in {[start_host |-> h, normalized_url |-> <<"https", ":", "//">> \o l \o p,
                     anchor_text |-> a, score |-> 0] :
                        h \in StartHosts, l \in LinkHosts, p \in LinkPaths, a \in AnchorTexts}
    /\ calls = <<>>
    /\ html = <<>>
    /\ start_url = <<>> /\ max_links = 0 /\ selected = <<>>
    /\ IdleSum
    /\ IdlePrune
    /\ IdleExtract
    /\ IdleSchedule
    /\ IdleSearch
    /\ IdleCrawl

LinkScore ==
    /\ pc = "link_score"
    /\ scored' = [scored EXCEPT !.score = _link_score(scored.start_host,
                                                      scored.normalized_url,
                                                      scored.anchor_text)]
    /\ pc' = "scored"
    /\ UNCHANGED <<sumVars, html, pruneVars, extractVars, linkVars, crawlVars, calls,
                   scheduleVars, searchVars>>

NextScore == LinkScore

SpecScore == InitScore /\ [][NextScore]_vars

\* a start host no link host ends with
NoStartHost == <<"nowhere", ".", "invalid">>

\* what the start host adds to the score
SameSiteBonus ==
    scored.score - _link_score(NoStartHost, scored.normalized_url, scored.anchor_text)

\* the host is the start host or a subdomain of it
SameSite(host, start_host) ==
    /\ start_host # <<>>
    /\ host = start_host \/ EndsWith(host, <<".">> \o start_host)

\* C20: the same-site bonus of +2 is added if and only if the link's host
\* equals the start host or ends with "." followed by the start host; a
\* host with the start host as a mere string suffix, and every host when the
\* start host is empty, gets no bonus.
C20_SameSiteBonus ==
    pc = "scored" =>
        SameSiteBonus = (IF SameSite(Lower(urlparse(scored.normalized_url).netloc),
                                     scored.start_host)
                         THEN 2 ELSE 0)

(***************************************************************************)
(* Specification SpecParagraphs: _extract_paragraph_text on a container of *)
(* a few blocks                                                            *)
(***************************************************************************)
MaxBlocks == 3

\* <<tag, text>>: paragraphs of 8 and 7 words, of 8 words behind a line
\* break, with "Cookie", with "Sign in", with "Privacy Policy"; a div of
\* 9 words
BlockKinds ==
    {<<"p", MkText("wa", 8)>>,
     <<"p", MkText("wb", 7)>>,
     <<"p", <<"\n", " ">> \o MkText("wc", 8) \o <<" ">>>>,
     <<"p", <<"Cookie", " ">> \o MkText("wd", 7)>>,
     <<"p", MkText("we", 7) \o <<" ", "Sign", " ", "in">>>>,
     <<"p", <<"Privacy", "\n", "Policy", " ">> \o MkText("wf", 8)>>,
     <<"div", MkText("wg", 9)>>}

\* a <div class="content"> holding the blocks
BlockDocs(n) ==
    {<<Element("div", 0, [NoAttrs EXCEPT !.class = << <<"content">> >>])>>
     \o [i \in 1..m |-> WithText(Element(k[i][1], 1, NoAttrs), k[i][2])] :
        <<m, k>> \in UNION {{m} \X [1..m -> BlockKinds] : m \in 0..n}}

InitParagraphs ==
    /\ pc = "paragraphs"
    /\ html \in BlockDocs(MaxBlocks)
    /\ soup = BeautifulSoup(html)
    /\ content_root \in {0, 1}
    /\ pruned_once = NoTree
    /\ prune_runs = 0
    /\ text = <<>> /\ target_words = 0 /\ summary = <<>>
    /\ IdleExtract
    /\ IdleLinks
    /\ IdleCrawl

ExtractParagraphs ==
    /\ pc = "paragraphs"
    /\ text' = _extract_paragraph_text(soup, content_root)
    /\ pc' = "paragraphs_extracted"
    /\ UNCHANGED <<target_words, summary, html, pruneVars, extractVars, linkVars,
                   crawlVars, callVars, scheduleVars, searchVars>>

NextParagraphs == ExtractParagraphs

SpecParagraphs == InitParagraphs /\ [][NextParagraphs]_vars

\* the whitespace-normalized text of a block
BlockText(i) == JoinSp(Split(html[i].text))

HasPhrase(t) ==
    \/ Contains(t, <<"accessibility", " ", "help">>)
    \/ Contains(t, <<"cookie">>)
    \/ Contains(t, <<"privacy", " ", "policy">>)
    \/ Contains(t, <<"sign", " ", "in">>)

\* the paragraphs of the container that pass the filter, in document order
SurvivingBlocks ==
    SelectSeq([i \in 1..Len(html) |-> i],
              LAMBDA i : /\ html[i].tag = "p"
                         /\ i # content_root /\ IsWithin(html, i, content_root)
                         /\ WordCount(BlockText(i)) >= 8
                         /\ ~ HasPhrase(Lower(BlockText(i))))

\* C24: the output of _extract_paragraph_text is exactly the container's
\* paragraphs of at least 8 words whose lowercased text holds none of
\* "accessibility help", "cookie", "privacy policy", "sign in", each
\* whitespace-normalized, in document order, joined by single spaces.
C24_ParagraphFilter ==
    pc = "paragraphs_extracted" =>
        text = JoinSp([k \in 1..Len(SurvivingBlocks) |-> BlockText(SurvivingBlocks[k])])

\* a paragraph of exactly 8 words is the output; one of 7 words and one
\* with a phrase beside it are not in it
C24_Witness ==
    /\ pc = "paragraphs_extracted"
    /\ text = MkText("wa", 8)
    /\ \E i \in 1..Len(html) : html[i].tag = "p" /\ WordCount(html[i].text) = 7
    /\ \E i \in 1..Len(html) :
          html[i].tag = "p" /\ WordCount(html[i].text) >= 8 /\ HasPhrase(Lower(BlockText(i)))

(***************************************************************************)
(* The paragraph filter inside the strategies of extract_readable_text, in *)
(* SpecExtract                                                             *)
(***************************************************************************)
\* the paragraphs below container c of a tree that pass the paragraph filter
Survivors(tree, c) ==
    {i \in tree.alive :
        /\ tree.nodes[i].tag = "p"
        /\ i # c /\ IsWithin(tree.nodes, i, c)
        /\ WordCount(get_text(tree, i)) >= 8
        /\ ~ HasPhrase(Lower(JoinSp(Split(get_text(tree, i)))))}

\* the text a strategy takes from its pruned container
StrategyText(tree, c) ==
    IF Survivors(tree, c) = {}
    THEN _clean_text(get_text(tree, c))
    ELSE _extract_paragraph_text(tree, c)

\* C25: in every strategy (primary container, whole-document retry,
\* readability) the text is the flattened, normalized text of the whole
\* pruned container if no paragraph passes the paragraph filter, discarded
\* paragraphs included, and the joined paragraphs if at least one passes.
C25_FlattenedOnlyWithoutParagraphs ==
    pc = "extracted" =>
        /\ Ran("primary") =>
              extraction.primary_text
                  = StrategyText(extraction.soup, extraction.content_root)
        /\ Ran("whole_document") =>
              extraction.fallback_text = StrategyText(extraction.fallback_soup, 0)
        /\ readability.kind = "summary" =>
              extraction.readability_text
                  = StrategyText(readability_soup(html, readability), 0)

\* the only paragraph of the container has 7 words: the primary text is the
\* flattened text and holds them
C25_Witness ==
    /\ pc = "extracted"
    /\ Ran("primary")
    /\ extraction.content_root # 0
    /\ Survivors(extraction.soup, extraction.content_root) = {}
    /\ \E i \in extraction.soup.alive :
          /\ html[i].tag = "p"
          /\ IsWithin(html, i, extraction.content_root)
          /\ WordCount(html[i].text) = 7
          /\ Mentions(extraction.primary_text, WordsOf(html, {i}))

(***************************************************************************)
(* Gen2MinerSchedule: task_is_due, run_task, run_single_config             *)
(***************************************************************************)
MaxTasks == 3
MaxCap == 2
RunDay == 15

\* a config value given to int(): an integer, or a value int() raises on
Number(n) == [numeric |-> TRUE, value |-> n]
NotANumber == [numeric |-> FALSE, value |-> 0]
int_raises(v) == ~ v.numeric
int(v) == v.value

\* a task entry: `object` is false for an entry that is not a JSON object;
\* `runs` is what run_task meets: "raises" (validation fails), or the child
\* process exits with 0 ("ok") or with another code ("error")
Task(name, object, enabled, cadence, day, runs) ==
    [name |-> name, object |-> object, enabled |-> enabled, cadence |-> cadence,
     day_of_month |-> day, runs |-> runs]
TaskKinds ==
    { Task("", FALSE, TRUE, "daily", Number(1), "ok"),
      Task("off", TRUE, FALSE, "daily", Number(1), "ok"),
      Task("weekly", TRUE, TRUE, "weekly", Number(1), "ok"),
      Task("news", TRUE, TRUE, "daily", Number(1), "ok"),
      Task("down", TRUE, TRUE, "daily", Number(1), "error"),
      Task("noquery", TRUE, TRUE, "daily", Number(1), "raises"),
      Task("mid", TRUE, TRUE, "monthly", Number(RunDay), "ok"),
      Task("later", TRUE, TRUE, "monthly", Number(RunDay + 1), "ok"),
      Task("day32", TRUE, TRUE, "monthly", Number(32), "ok"),
      Task("first", TRUE, TRUE, "monthly", NotANumber, "ok") }
TaskLists == UNION {[1..n -> TaskKinds] : n \in 0..MaxTasks}

\* task_is_due: line 58 converts day_of_month with int(), which raises
task_is_due_raises(task, filter) ==
    /\ task.enabled
    /\ task.cadence = "monthly"
    /\ filter \in {"all", "monthly"}
    /\ int_raises(task.day_of_month)
task_is_due(task, run_date_day, filter) ==
    IF ~ task.enabled THEN [due |-> FALSE, reason |-> "disabled"]
    ELSE IF task.cadence \notin {"daily", "monthly"}
    THEN [due |-> FALSE, reason |-> "unsupported cadence"]
    ELSE IF filter # "all" /\ task.cadence # filter
    THEN [due |-> FALSE, reason |-> "filtered by cadence"]
    ELSE IF task.cadence = "monthly"
    THEN LET day_of_month == int(task.day_of_month)
         IN  IF day_of_month < 1 \/ day_of_month > 31
             THEN [due |-> FALSE, reason |-> "invalid day_of_month"]
             ELSE IF run_date_day # day_of_month
             THEN [due |-> FALSE, reason |-> "monthly task due on day"]
             ELSE [due |-> TRUE, reason |-> "due"]
    ELSE [due |-> TRUE, reason |-> "due"]

\* run_task: validation raises before the dry-run test; the status of the run
run_task_raises(task) == task.runs = "raises"
run_task(task, dry) ==
    [name |-> task.name, status |-> IF dry THEN "dry_run" ELSE task.runs, reason |-> ""]

Skipped(name, reason) == [name |-> name, status |-> "skipped", reason |-> reason]
CapReachedAbove(s, cap) == cap > 0 /\ s.tasks_executed > cap
CapReached(s, cap) == cap > 0 /\ s.tasks_executed >= cap

\* one iteration of the task loop on the summary s
ProcessedTask(s, task, cap, day, filter, dry) ==
    IF ~ task.object
    THEN [s EXCEPT !.tasks_skipped = @ + 1,
                   !.results = Append(@, Skipped("", "task entry must be object"))]
    ELSE LET check == task_is_due(task, day, filter)
             due == [s EXCEPT !.tasks_due = @ + 1]
         IN  IF ~ check.due
             THEN [s EXCEPT !.tasks_skipped = @ + 1,
                            !.results = Append(@, Skipped(task.name, check.reason))]
             ELSE IF CapReached(due, cap)
             THEN [due EXCEPT !.tasks_skipped = @ + 1,
                              !.results = Append(@, Skipped(task.name, "max_tasks cap reached"))]
             ELSE IF run_task_raises(task)
             THEN [due EXCEPT !.tasks_executed = @ + 1,
                              !.tasks_failed = @ + 1,
                              !.results = Append(@, [name |-> task.name, status |-> "error",
                                                     reason |-> ""])]
             ELSE LET result == run_task(task, dry)
                  IN  [due EXCEPT !.results = Append(@, result),
                                  !.tasks_executed = @ + 1,
                                  !.tasks_failed = IF result.status = "error" THEN @ + 1 ELSE @]

InitSchedule ==
    /\ pc = "load_config"
    /\ tasks \in TaskLists
    /\ max_tasks \in -1..MaxCap
    /\ cadence_filter \in {"all", "daily", "monthly"}
    /\ dry_run \in BOOLEAN
    /\ run_day = RunDay
    /\ run_summary = NoSummary
    /\ exit_code = 0
    /\ task_index = 0
    /\ calls = <<>> /\ scored = NoScore
    /\ html = <<>>
    /\ start_url = <<>> /\ max_links = 0 /\ selected = <<>>
    /\ IdleSearch
    /\ IdleSum
    /\ IdlePrune
    /\ IdleExtract
    /\ IdleCrawl

\* run_single_config, lines 174-208: the date, the config or its default
\* domain is rejected (error summary, exit code 1), or the summary is set up
LoadConfig ==
    /\ pc = "load_config"
    /\ \E loaded \in BOOLEAN :
          IF loaded
          THEN /\ run_summary' = [NoSummary EXCEPT !.status = "ok", !.tasks_total = Len(tasks)]
               /\ task_index' = 1
               /\ pc' = "tasks"
               /\ UNCHANGED exit_code
          ELSE /\ run_summary' = [NoSummary EXCEPT !.status = "error"]
               /\ exit_code' = 1
               /\ pc' = "returned"
               /\ UNCHANGED task_index
    /\ UNCHANGED <<tasks, max_tasks, run_day, cadence_filter, dry_run>>
    /\ UNCHANGED <<sumVars, html, pruneVars, extractVars, linkVars, crawlVars, callVars,
                   searchVars>>

\* run_single_config, lines 210-262: one iteration of the task loop; the due
\* check is made outside the try block, so its exception leaves the function
ProcessTask ==
    /\ pc = "tasks"
    /\ task_index <= Len(tasks)
    /\ LET task == tasks[task_index]
       IN  IF task.object /\ task_is_due_raises(task, cadence_filter)
           THEN /\ pc' = "raised"
                /\ exit_code' = 1
                /\ UNCHANGED <<run_summary, task_index>>
           ELSE /\ run_summary' = ProcessedTask(run_summary, task, max_tasks, run_day,
                                                cadence_filter, dry_run)
                /\ task_index' = task_index + 1
                /\ UNCHANGED <<pc, exit_code>>
    /\ UNCHANGED <<tasks, max_tasks, run_day, cadence_filter, dry_run>>
    /\ UNCHANGED <<sumVars, html, pruneVars, extractVars, linkVars, crawlVars, callVars,
                   searchVars>>

\* run_single_config, lines 264-268: the status and the exit code
ReturnSummary ==
    /\ pc = "tasks"
    /\ task_index > Len(tasks)
    /\ run_summary' = IF run_summary.tasks_failed > 0
                      THEN [run_summary EXCEPT !.status = "partial_error"]
                      ELSE run_summary
    /\ exit_code' = IF run_summary.tasks_failed = 0 THEN 0 ELSE 1
    /\ pc' = "returned"
    /\ UNCHANGED <<tasks, max_tasks, run_day, cadence_filter, dry_run, task_index>>
    /\ UNCHANGED <<sumVars, html, pruneVars, extractVars, linkVars, crawlVars, callVars,
                   searchVars>>

NextSchedule ==
    \/ LoadConfig
    \/ ProcessTask
    \/ ReturnSummary

SpecSchedule == InitSchedule /\ [][NextSchedule]_vars

(***************************************************************************)
(* The accounting of a scheduler run                                       *)
(***************************************************************************)
Loaded == run_summary.status \in {"ok", "partial_error"}
RunOver == pc \in {"returned", "raised"}
IsDue(task) ==
    /\ task.object
    /\ ~ task_is_due_raises(task, cadence_filter)
    /\ task_is_due(task, run_day, cadence_filter).due
CapSkipped(s) ==
    {i \in 1..Len(s.results) : /\ s.results[i].status = "skipped"
                               /\ s.results[i].reason = "max_tasks cap reached"}
Executed(s, n) == {i \in 1..n : s.results[i].status # "skipped"}
Counted(s) ==
    /\ s.tasks_skipped + s.tasks_executed = s.tasks_total
    /\ s.tasks_failed <= s.tasks_executed
    /\ s.tasks_due = s.tasks_executed + Cardinality(CapSkipped(s))
InConfigOrder(s) ==
    /\ Len(s.results) = Len(tasks)
    /\ \A i \in 1..Len(tasks) : s.results[i].name = tasks[i].name
FailedIffPartialError(s) ==
    (s.status = "partial_error" /\ exit_code = 1) <=> s.tasks_failed > 0

\* the accounting of the runs that return a summary
AccountingOnReturn ==
    (pc = "returned" /\ Loaded) =>
        /\ InConfigOrder(run_summary)
        /\ Counted(run_summary)
        /\ FailedIffPartialError(run_summary)

\* C28: when the run of a loaded config is over, every task entry has exactly
\* one results entry in config order, skipped + executed = total, failed <=
\* executed, due = executed + the entries skipped by the cap, and the run is
\* a partial_error with exit code 1 exactly if a task failed: no task that
\* fails or raises keeps the entries after it from being processed
C28_Accounting ==
    (RunOver /\ Loaded) =>
        /\ InConfigOrder(run_summary)
        /\ Counted(run_summary)
        /\ FailedIffPartialError(run_summary)

(***************************************************************************)
(* The execution cap of a scheduler run                                    *)
(***************************************************************************)
\* the entries the loop has processed so far
Processed == 1..Len(run_summary.results)
MetAfterCap(i) ==
    /\ IsDue(tasks[i])
    /\ max_tasks > 0
    /\ Cardinality(Executed(run_summary, i - 1)) >= max_tasks

\* C29: with max_tasks > 0 the executed count never exceeds max_tasks at any
\* point of the run, a task that raises counting as executed; a due task met
\* once the cap is reached is skipped with reason "max_tasks cap reached"
\* and still counted in tasks_due; with max_tasks <= 0 the cap skips nothing
C29_ExecutionCap ==
    /\ max_tasks > 0 => run_summary.tasks_executed <= max_tasks
    /\ run_summary.tasks_executed = Cardinality(Executed(run_summary, Len(run_summary.results)))
    /\ \A i \in Processed :
          MetAfterCap(i) <=> i \in CapSkipped(run_summary)
    /\ run_summary.tasks_due = Cardinality({i \in Processed : IsDue(tasks[i])})
    /\ max_tasks <= 0 => CapSkipped(run_summary) = {}
C29_Witness ==
    /\ pc = "returned"
    /\ max_tasks = 1
    /\ Len(tasks) = 3
    /\ run_task_raises(tasks[1])
    /\ run_summary.tasks_executed = 1
    /\ run_summary.tasks_due = 3
    /\ CapSkipped(run_summary) = {2, 3}

(***************************************************************************)
(* Gen2WebSearch: build_relaxed_queries and the search sources of main     *)
(***************************************************************************)
MaxQueryLen == 4
QueryAtoms == {"latest", "Latest", "awards", "film", " "}
Queries(n) ==
    {Strip(q) : q \in {r \in UNION {[1..k -> QueryAtoms] : k \in 1..n} : Strip(r) # <<>>}}

\* re.sub(r"\s+", " ", text.strip())
_normalize_query_spacing(t) == JoinSp(Split(t))

\* re.sub(r"\bword\b", repl, t, flags=re.IGNORECASE): an atom is a run of
\* letters, so the boundaries are there where no letter atom is adjacent
WordAt(t, i, word) ==
    /\ LowerAtom(t[i]) = word
    /\ i = 1 \/ t[i - 1] \in Whitespace
    /\ i = Len(t) \/ t[i + 1] \in Whitespace
SubWord(word, repl, t) ==
    Join(<<>>, [i \in 1..Len(t) |-> IF WordAt(t, i, word) THEN repl ELSE <<t[i]>>])

build_relaxed_queries(q) ==
    LET base == _normalize_query_spacing(q)
        no_latest == _normalize_query_spacing(SubWord("latest", <<>>, base))
        award_singular == _normalize_query_spacing(SubWord("awards", <<"award">>, base))
        no_latest_award_singular ==
            _normalize_query_spacing(SubWord("awards", <<"award">>, no_latest))
        first == IF no_latest # <<>> /\ Lower(no_latest) # Lower(base)
                 THEN <<no_latest>> ELSE <<>>
        second == IF award_singular # <<>> /\ Lower(award_singular) # Lower(base)
                  THEN <<award_singular>> ELSE <<>>
        third == IF /\ no_latest_award_singular # <<>>
                    /\ Lower(no_latest_award_singular) \notin
                          {Lower(base), Lower(no_latest), Lower(award_singular)}
                 THEN <<no_latest_award_singular>> ELSE <<>>
    IN  IF base = <<>> THEN <<>> ELSE first \o second \o third

\* what a source request meets: the fetch raises, or the page read from the
\* source holds no result row, or it holds one
Outcomes == {"raises", "empty", "found"}
Row(source, q) == [source |-> source, query |-> q]
Rows(source, q, outcome) == IF outcome = "found" THEN <<Row(source, q)>> ELSE <<>>
Attempt(source, q, outcome) == [source |-> source, query |-> q, outcome |-> outcome]

\* `if not base_results`: the next source is asked
ChainContinuesAlways(rows) == TRUE
ChainContinues(rows) == rows = <<>>

InitSearch ==
    /\ pc = "search_duckduckgo"
    /\ query \in Queries(MaxQueryLen)
    /\ relaxed_left = <<>>
    /\ attempts = <<>>
    /\ base_results = <<>>
    /\ effective_query = <<>>
    /\ result_source = ""
    /\ calls = <<>> /\ scored = NoScore
    /\ html = <<>>
    /\ start_url = <<>> /\ max_links = 0 /\ selected = <<>>
    /\ IdleSchedule
    /\ IdleSum
    /\ IdlePrune
    /\ IdleExtract
    /\ IdleCrawl

\* main, lines 552-556: DuckDuckGo with the query; an exception here is
\* caught by the handler of line 604 and ends the search
SearchDuckDuckGo ==
    /\ pc = "search_duckduckgo"
    /\ effective_query' = query
    /\ \E outcome \in Outcomes :
          /\ attempts' = Append(attempts, Attempt("duckduckgo", query, outcome))
          /\ IF outcome = "raises"
             THEN /\ pc' = "search_error"
                  /\ UNCHANGED <<base_results, result_source>>
             ELSE /\ base_results' = Rows("duckduckgo", query, outcome)
                  /\ result_source' = "duckduckgo_html"
                  /\ pc' = IF ChainContinues(base_results') THEN "search_bing"
                           ELSE "search_done"
    /\ UNCHANGED <<query, relaxed_left>>
    /\ UNCHANGED <<sumVars, html, pruneVars, extractVars, linkVars, crawlVars, callVars,
                   scheduleVars>>

\* main, lines 558-567: Bing news RSS with the query, its exception passed
\* over; with no result yet the relaxed queries are built
SearchBing ==
    /\ pc = "search_bing"
    /\ \E outcome \in Outcomes :
          /\ attempts' = Append(attempts, Attempt("bing", effective_query, outcome))
          /\ base_results' = IF outcome = "raises" THEN base_results
                             ELSE Rows("bing", effective_query, outcome)
          /\ result_source' = IF outcome = "found" THEN "bing_news_rss" ELSE result_source
    /\ relaxed_left' = IF ChainContinues(base_results') THEN build_relaxed_queries(query)
                       ELSE relaxed_left
    /\ pc' = IF ChainContinues(base_results') /\ relaxed_left' # <<>>
             THEN "relaxed_duckduckgo" ELSE "search_done"
    /\ UNCHANGED <<query, effective_query>>
    /\ UNCHANGED <<sumVars, html, pruneVars, extractVars, linkVars, crawlVars, callVars,
                   scheduleVars>>

\* main, lines 570-578: DuckDuckGo with the relaxed query of this iteration
RelaxedDuckDuckGo ==
    /\ pc = "relaxed_duckduckgo"
    /\ LET relaxed_query == Head(relaxed_left)
       IN  \E outcome \in Outcomes :
              /\ attempts' = Append(attempts, Attempt("duckduckgo", relaxed_query, outcome))
              /\ base_results' = IF outcome = "raises" THEN base_results
                                 ELSE Rows("duckduckgo", relaxed_query, outcome)
              /\ IF ~ ChainContinues(base_results')
                 THEN /\ effective_query' = relaxed_query
                      /\ result_source' = "duckduckgo_html_relaxed"
                      /\ pc' = "search_done"
                 ELSE /\ pc' = "relaxed_bing"
                      /\ UNCHANGED <<effective_query, result_source>>
    /\ UNCHANGED <<query, relaxed_left>>
    /\ UNCHANGED <<sumVars, html, pruneVars, extractVars, linkVars, crawlVars, callVars,
                   scheduleVars>>

\* main, lines 580-588: Bing with the same relaxed query, then the next
\* iteration of the loop
RelaxedBing ==
    /\ pc = "relaxed_bing"
    /\ LET relaxed_query == Head(relaxed_left)
       IN  \E outcome \in Outcomes :
              /\ attempts' = Append(attempts, Attempt("bing", relaxed_query, outcome))
              /\ base_results' = IF outcome = "raises" THEN base_results
                                 ELSE Rows("bing", relaxed_query, outcome)
              /\ IF ~ ChainContinues(base_results')
                 THEN /\ effective_query' = relaxed_query
                      /\ result_source' = "bing_news_rss_relaxed"
                      /\ pc' = "search_done"
                      /\ UNCHANGED relaxed_left
                 ELSE /\ relaxed_left' = Tail(relaxed_left)
                      /\ pc' = IF relaxed_left' = <<>> THEN "search_done"
                               ELSE "relaxed_duckduckgo"
                      /\ UNCHANGED <<effective_query, result_source>>
    /\ UNCHANGED query
    /\ UNCHANGED <<sumVars, html, pruneVars, extractVars, linkVars, crawlVars, callVars,
                   scheduleVars>>

NextSearch ==
    \/ SearchDuckDuckGo
    \/ SearchBing
    \/ RelaxedDuckDuckGo
    \/ RelaxedBing

SpecSearch == InitSearch /\ [][NextSearch]_vars

(***************************************************************************)
(* The order of the search sources                                         *)
(***************************************************************************)
Request(source, q) == [source |-> source, query |-> q]
BothSources(q) == <<Request("duckduckgo", q), Request("bing", q)>>
\* the requests in their fixed order: the query, then each relaxed query
SourceOrder(q) ==
    LET relaxed == build_relaxed_queries(q)
    IN  BothSources(q) \o Join(<<>>, [i \in 1..Len(relaxed) |-> BothSources(relaxed[i])])
RequestOf(attempt) == Request(attempt.source, attempt.query)
\* the result_source value that names request i of the order
SourceName(i, source) ==
    CASE i <= 2 /\ source = "duckduckgo" -> "duckduckgo_html"
      [] i <= 2 /\ source = "bing" -> "bing_news_rss"
      [] i > 2 /\ source = "duckduckgo" -> "duckduckgo_html_relaxed"
      [] i > 2 /\ source = "bing" -> "bing_news_rss_relaxed"
InFixedOrder(order) ==
    /\ Len(attempts) <= Len(order)
    /\ \A i \in 1..Len(attempts) : RequestOf(attempts[i]) = order[i]
NamesSupplier ==
    LET n == Len(attempts)
    IN  /\ n > 0
        /\ attempts[n].outcome = "found"
        /\ base_results = <<Row(attempts[n].source, attempts[n].query)>>
        /\ result_source = SourceName(n, attempts[n].source)
        /\ effective_query = attempts[n].query
        /\ effective_query # query => n > 2

\* C30: the sources are asked in the order DuckDuckGo, Bing with the query,
\* then DuckDuckGo, Bing with each relaxed query; none is asked after one
\* that returned results; a non-empty final result list comes from the
\* request that result_source and effective_query name, and effective_query
\* is the original query unless that request was a relaxed one
C30_FallbackChain ==
    /\ \A order \in {SourceOrder(query)} : InFixedOrder(order)
    /\ \A i \in 1..(Len(attempts) - 1) : attempts[i].outcome # "found"
    /\ (pc = "search_done" /\ base_results # <<>>) => NamesSupplier
C30_Witness ==
    /\ pc = "search_done"
    /\ Len(attempts) = 6
    /\ attempts[3].outcome = "raises"
    /\ attempts[6].outcome = "found"
    /\ result_source = "bing_news_rss_relaxed"
    /\ effective_query # query
    /\ Len(relaxed_left) = 2
    /\ Head(relaxed_left) = effective_query

====
